---------------------------- MODULE Spec2Model ----------------------------
(***************************************************************************)
(* Link intelligence engine of the Chrome bridge of Activity Stream:       *)
(* history/bookmark aggregation, frecency ranking, highlight selection,    *)
(* link-metadata enrichment with its rate limiter, and the blocklist.      *)
(*                                                                         *)
(* Sources modelled:                                                       *)
(*   src/addon-chrome/ChromePlacesProvider.js   (places provider)          *)
(*   src/addon-chrome/constants.js              (regex constants)          *)
(*   src/unnamed/part_001                       (preview provider)         *)
(*   src/addon-chrome/ChromePreviewProvider.js  (earlier preview provider) *)
(*                                                                         *)
(* Time.  Timestamps are milliseconds in the source.  The model scales     *)
(* them: one model millisecond stands for MsPerUnit real milliseconds, so  *)
(* that a year fits TLC's integers.  Raw chrome.history timestamps are     *)
(* doubles with a fractional part; they are kept in ticks, SubMs ticks to  *)
(* the model millisecond, and parseInt(.,10) truncates ticks to whole      *)
(* model milliseconds.                                                     *)
(***************************************************************************)
EXTENDS Integers, Sequences, FiniteSets, TLC

\* ------------------------------------------------------------------------
\* Time scale
\* ------------------------------------------------------------------------
\* thirty minutes of real time make one model millisecond
MsPerUnit == 30 * 60 * 1000

\* ticks to the model millisecond (resolution of raw chrome timestamps)
SubMs == 2

\* new Date().getTime(), in model milliseconds
Today == 20000

\* microsecondsPerDay / 1000, in model milliseconds
UnitsPerDay == (24 * 60 * 60 * 1000) \div MsPerUnit

\* JS undefined for an optional numeric field
Undefined == -1

\* ------------------------------------------------------------------------
\* URLs.  A url is an index into UrlTable; the table is sorted by the JS
\* string order of the texts, so index order is the order of a.url > b.url.
\* host is urlParse(url).host.  The three flags are the results of testing
\* the text against the regular expressions of constants.js:
\*   search : /(google|bing|yahoo|wikipedia|duckduckgo)+.*(search|q|url|ion)/
\*   local  : /localhost/
\*   chrome : /chrome/
\* ------------------------------------------------------------------------
UrlTable ==
  << [text |-> "chrome://extensions/",              host |-> "extensions",
      search |-> FALSE, local |-> FALSE, chrome |-> TRUE],
     [text |-> "http://a.com/",                     host |-> "a.com",
      search |-> FALSE, local |-> FALSE, chrome |-> FALSE],
     [text |-> "http://a.com/x",                    host |-> "a.com",
      search |-> FALSE, local |-> FALSE, chrome |-> FALSE],
     [text |-> "http://b.org/",                     host |-> "b.org",
      search |-> FALSE, local |-> FALSE, chrome |-> FALSE],
     [text |-> "http://localhost/p",                host |-> "localhost",
      search |-> FALSE, local |-> TRUE,  chrome |-> FALSE],
     [text |-> "https://www.google.com/search?q=x", host |-> "www.google.com",
      search |-> TRUE,  local |-> FALSE, chrome |-> FALSE] >>

Urls == 1..Len(UrlTable)

urlParseHost(u) == UrlTable[u].host

\* ------------------------------------------------------------------------
\* constants.js
\* ------------------------------------------------------------------------
\* new RegExp(SEARCH_RESULT_REGEX).test(url)
SEARCH_RESULT_REGEX(u) == UrlTable[u].search

\* constants.js exports LOCALHOST_REGEX
LOCALHOST_REGEX(u) == UrlTable[u].local

\* ChromePlacesProvider.js imports LOCAL_REGEX, which constants.js does not
\* export: the binding is undefined, new RegExp(undefined) is /(?:)/, and
\* /(?:)/.test(s) is true for every string s.
LOCAL_REGEX(u) == TRUE

\* new RegExp(BROWSER_RESOURCE_REGEX).test(url)
BROWSER_RESOURCE_REGEX(u) == UrlTable[u].chrome

\* filterRegex.test(url): the alternation of the three sources
filterRegex(u) == SEARCH_RESULT_REGEX(u) \/ LOCAL_REGEX(u) \/ BROWSER_RESOURCE_REGEX(u)

\* /(google|localhost)/.test(url), the filter of the earlier ranker
googleLocalhostRegex(u) == UrlTable[u].search \/ UrlTable[u].local

\* ------------------------------------------------------------------------
\* Links.  One record shape for history items, bookmarks and merged links;
\* an absent numeric field is Undefined, an absent images list is <<>>, an
\* absent description is "", an absent frencency is NoFrecency.
\* ------------------------------------------------------------------------
NoFrecency == [vc |-> 0, num |-> 0, den |-> 0]

\* a raw chrome.history item {url, visitCount, lastVisitTime}
HistoryItem(u, vc, lvt) ==
  [url |-> u, visitCount |-> vc, lastVisitTime |-> lvt,
   lastVisitDate |-> Undefined, dateAdded |-> Undefined, id |-> Undefined,
   bookmarkGuid |-> Undefined, images |-> <<>>, description |-> "",
   frencency |-> NoFrecency]

\* a raw chrome.bookmarks link node {id, url, dateAdded}
BookmarkNode(i, u, added) ==
  [url |-> u, visitCount |-> Undefined, lastVisitTime |-> Undefined,
   lastVisitDate |-> Undefined, dateAdded |-> added, id |-> i,
   bookmarkGuid |-> Undefined, images |-> <<>>, description |-> "",
   frencency |-> NoFrecency]

\* parseInt(t, 10) of a timestamp held in ticks: whole model milliseconds
parseInt(t) == t \div SubMs

\* the urls of the links of a list, in order
UrlsOf(rows) == [i \in 1..Len(rows) |-> rows[i].url]

\* Array.prototype.indexOf, 0 for JS -1 (sequences are 1-based)
indexOf(s, x) ==
  IF \E i \in 1..Len(s) : s[i] = x
  THEN CHOOSE i \in 1..Len(s) : s[i] = x /\ \A j \in 1..(i - 1) : s[j] # x
  ELSE 0

\* _mergeHistoryBookmark (lines 383-390)
_mergeHistoryBookmark(hist, bookmarks) ==
  LET index == indexOf(UrlsOf(bookmarks), hist.url)
  IN  IF index > 0
      THEN [hist EXCEPT !.bookmarkGuid = bookmarks[index].bookmarkGuid]
      ELSE hist

\* _transformHistory (lines 332-339); favicon_url is not modelled
_transformHistory(hist, bookmarks) ==
  [_mergeHistoryBookmark(hist, bookmarks)
     EXCEPT !.lastVisitDate = parseInt(hist.lastVisitTime)]

\* _transformBookmark (lines 347-354); favicon_url is not modelled, and
\* bookmarkDateCreated is the copy of dateAdded
_transformBookmark(bookmark) ==
  [bookmark EXCEPT !.bookmarkGuid = bookmark.id]

\* ------------------------------------------------------------------------
\* Frecency ranker (ChromePlacesProvider.js)
\* ------------------------------------------------------------------------
\* a score with the fraction upside down: it grows with age
_calculateFrecency_growingWithAge(hist) ==
  LET d  == Today - hist.lastVisitDate
      k  == 100 * 225 * UnitsPerDay * UnitsPerDay
      d0 == d * d + 225 * UnitsPerDay * UnitsPerDay
  IN  IF d0 > k THEN [vc |-> hist.visitCount, num |-> d0, den |-> k]
                ELSE [vc |-> hist.visitCount, num |-> 1, den |-> 1]

\* _calculateFrecency: visitCount * max(1, 100*225 / (age*age + 225)), with
\* age = (today - lastVisitDate) / one day.  The value is kept as the exact
\* rational vc * num / den: with d = today - lastVisitDate and D = one day,
\* 100*225/(age*age + 225) = 100*225*D*D / (d*d + 225*D*D).
_calculateFrecency(hist) ==
  LET d  == Today - hist.lastVisitDate
      k  == 100 * 225 * UnitsPerDay * UnitsPerDay
      d0 == d * d + 225 * UnitsPerDay * UnitsPerDay
  IN  IF k > d0 THEN [vc |-> hist.visitCount, num |-> k, den |-> d0]
                ELSE [vc |-> hist.visitCount, num |-> 1, den |-> 1]

\* a.frencency > b.frencency on the rationals (equal num cancels)
FrecencyGT(f, g) ==
  IF f.num = g.num THEN f.vc * g.den > g.vc * f.den
                   ELSE f.vc * f.num * g.den > g.vc * g.num * f.den

\* the comparator handed to sort (lines 212-226)
compareFrecency(a, b) ==
  IF FrecencyGT(a.frencency, b.frencency) THEN -1
  ELSE IF FrecencyGT(b.frencency, a.frencency) THEN 1
  ELSE IF a.lastVisitTime > b.lastVisitTime THEN -1
  ELSE IF a.url > b.url THEN -1
  ELSE 0

\* Array.prototype.sort on a short array: insertion sort, an element moves
\* left past every element the comparator orders after it (result > 0)
RECURSIVE insertSorted(_, _)
insertSorted(s, e) ==
  IF s = <<>> THEN <<e>>
  ELSE IF compareFrecency(s[Len(s)], e) > 0
       THEN Append(insertSorted(SubSeq(s, 1, Len(s) - 1), e), s[Len(s)])
       ELSE Append(s, e)

RECURSIVE sortByFrecency(_)
sortByFrecency(rows) ==
  IF rows = <<>> THEN <<>>
  ELSE insertSorted(sortByFrecency(SubSeq(rows, 1, Len(rows) - 1)), rows[Len(rows)])

\* the hosts of the links of a list
HostsOf(rows) == { urlParseHost(rows[i].url) : i \in 1..Len(rows) }

\* a consolidation that keeps the last link of each host
consolidateHosts_keepLast(histories) ==
  LET lasts == { i \in 1..Len(histories) :
                   \A j \in (i + 1)..Len(histories) :
                     urlParseHost(histories[j].url) # urlParseHost(histories[i].url) }
  IN  [k \in 1..Cardinality(lasts) |->
         histories[CHOOSE i \in lasts : Cardinality({ j \in lasts : j <= i }) = k]]

\* lines 195-204: keep the first link of each host, in input order
RECURSIVE consolidateHosts(_)
consolidateHosts(histories) ==
  IF histories = <<>> THEN <<>>
  ELSE LET init == consolidateHosts(SubSeq(histories, 1, Len(histories) - 1))
           hist == histories[Len(histories)]
       IN  IF urlParseHost(hist.url) \in
                HostsOf(SubSeq(histories, 1, Len(histories) - 1))
           THEN init
           ELSE Append(init, hist)

\* a filter that keeps every link
excludeFiltered_keepAll(rows) == rows

\* Array.prototype.filter keeping the links whose url the regex does not match
excludeFiltered(rows) ==
  SelectSeq(rows, LAMBDA r : ~filterRegex(r.url))

\* .map: Object.assign(hist, {frencency})
withFrecency(rows) ==
  [i \in 1..Len(rows) |-> [rows[i] EXCEPT !.frencency = _calculateFrecency(rows[i])]]

\* the ranker of the earlier revision (part_000 lines 582-608): no host
\* consolidation, filter /(google|localhost)/
getTopFrecentSites_noConsolidation(histories) ==
  sortByFrecency(withFrecency(
    SelectSeq(histories, LAMBDA r : ~googleLocalhostRegex(r.url))))

\* _getTopFrecentSites (lines 188-229)
_getTopFrecentSites(histories) ==
  sortByFrecency(withFrecency(excludeFiltered(consolidateHosts(histories))))

\* ------------------------------------------------------------------------
\* History/bookmark aggregator and blocklist (ChromePlacesProvider.js)
\* ------------------------------------------------------------------------
\* JS falsiness of an optional number: 0 and undefined
Falsy(x) == x = 0 \/ x = Undefined

\* a node of the chrome.bookmarks tree; a folder has url 0 (no url) and a
\* link has no children
TreeLink(i, u, added) == [id |-> i, url |-> u, dateAdded |-> added, children |-> <<>>]

TreeFolder(i, kids) == [id |-> i, url |-> 0, dateAdded |-> Undefined, children |-> kids]

\* a traversal that visits the children of a node before the node itself
RECURSIVE collectBookmarks_childrenFirst(_)
collectBookmarks_childrenFirst(trees) ==
  IF trees = <<>> THEN <<>>
  ELSE LET tree == Head(trees)
       IN  (IF tree.children # <<>> THEN collectBookmarks_childrenFirst(tree.children)
                                    ELSE <<>>)
           \o (IF tree.url # 0
               THEN <<[url |-> tree.url, visitCount |-> -1, lastVisitTime |-> -1,
                       lastVisitDate |-> -1, dateAdded |-> tree.dateAdded, id |-> tree.id,
                       bookmarkGuid |-> -1, images |-> <<>>, description |-> "",
                       frencency |-> [vc |-> 0, num |-> 0, den |-> 0]]>>
               ELSE <<>>)
           \o collectBookmarks_childrenFirst(Tail(trees))

\* _collectBookmarks (lines 362-374): depth-first, a node before its
\* children, only nodes with a url
RECURSIVE _collectBookmarks(_)
_collectBookmarks(trees) ==
  IF trees = <<>> THEN <<>>
  ELSE LET tree == Head(trees)
       IN  (IF tree.url # 0
            THEN <<BookmarkNode(tree.id, tree.url, tree.dateAdded)>>
            ELSE <<>>)
           \o (IF tree.children # <<>> THEN _collectBookmarks(tree.children) ELSE <<>>)
           \o _collectBookmarks(Tail(trees))

\* the comparator of lines 123-131: later dateAdded first
compareDateAdded(a, b) ==
  IF a.dateAdded > b.dateAdded THEN -1
  ELSE IF a.dateAdded < b.dateAdded THEN 1
  ELSE 0

RECURSIVE insertByDateAdded(_, _)
insertByDateAdded(s, e) ==
  IF s = <<>> THEN <<e>>
  ELSE IF compareDateAdded(s[Len(s)], e) > 0
       THEN Append(insertByDateAdded(SubSeq(s, 1, Len(s) - 1), e), s[Len(s)])
       ELSE Append(s, e)

RECURSIVE sortByDateAdded(_)
sortByDateAdded(rows) ==
  IF rows = <<>> THEN <<>>
  ELSE CHOOSE sorted \in { insertByDateAdded(front, rows[Len(rows)]) :
                             front \in { sortByDateAdded(SubSeq(rows, 1, Len(rows) - 1)) } } :
         TRUE

\* Array.prototype.slice(0, n)
sliceTo(rows, n) == SubSeq(rows, 1, IF Len(rows) < n THEN Len(rows) ELSE n)

\* .map(f) over a list
mapTransformBookmark(rows) == [i \in 1..Len(rows) |-> _transformBookmark(rows[i])]

\* lines 120-134 of _getBookmarks: collect, sort, cut by date and count, transform
collectedBookmarks(trees, beforeDate, maxResults) ==
  mapTransformBookmark(
    sliceTo(SelectSeq(sortByDateAdded(_collectBookmarks(trees)),
                      LAMBDA b : b.dateAdded < beforeDate),
            maxResults))

\* chrome.history.search(searchOptions): the native range query, which takes
\* the two bounds as alternatives (line 168), cut to maxResults
historySearch(items, startTime, endTime, maxResults) ==
  sliceTo(SelectSeq(items, LAMBDA r : \/ r.lastVisitTime >= startTime * SubMs
                                      \/ r.lastVisitTime <= endTime * SubMs),
          maxResults)

\* lines 167-171 of getHistory: the post-filter on the search results
withinTimes(results, startTime, endTime) ==
  IF ~Falsy(startTime) /\ ~Falsy(endTime)
  THEN SelectSeq(results, LAMBDA r : /\ r.lastVisitTime > startTime * SubMs
                                     /\ r.lastVisitTime < endTime * SubMs)
  ELSE results

\* line 174: results.map((result) => this._transformHistory(result, bookmarks))
mapTransformHistory(results, bookmarks) ==
  [i \in 1..Len(results) |-> _transformHistory(results[i], bookmarks)]

\* a link list without the links whose url is in the set blockedUrls
withoutBlocked(items, blockedUrls) ==
  SelectSeq(items, LAMBDA item : item.url \notin blockedUrls)

\* the filter of _filterBlockedUrls matching on the host instead of the url
filterBlockedUrls_byHost(items, blockedUrlItems) ==
  SelectSeq(items, LAMBDA item :
    urlParseHost(item.url) \notin { urlParseHost(blocked.url) : blocked \in blockedUrlItems })

\* the filter of _filterBlockedUrls with the blocklist not consulted
filterBlockedUrls_keepAll(items, blockedUrlItems) == items

\* the filter of _filterBlockedUrls handing back the kept links last first
filterBlockedUrls_reversed(items, blockedUrlItems) ==
  LET kept == withoutBlocked(items, { blocked.url : blocked \in blockedUrlItems })
  IN  [i \in 1..Len(kept) |-> kept[Len(kept) + 1 - i]]

\* _filterBlockedUrls (lines 313-322), the step after db.getAll resolved with
\* blockedUrlItems: blockedUrls.indexOf(item.url) === -1
_filterBlockedUrls(items, blockedUrlItems) ==
  withoutBlocked(items, { blocked.url : blocked \in blockedUrlItems })

\* getHistory's defaults (lines 152-161) and _getBookmarks' (line 117)
aYear == 365 * 24 * ((60 * 60 * 1000) \div MsPerUnit)

DefaultOptions ==
  [startTime |-> Today - aYear, endTime |-> Today, maxResults |-> 20,
   beforeDate |-> Today]

\* the options a caller hands to getHistory: the keys it sets and their
\* values (Undefined for a key set to undefined); no keys for no argument
NoOptions == [keys |-> {}, startTime |-> Undefined, endTime |-> Undefined]

\* searchOptions (line 162): Object.assign(defaultOption, options) copies
\* every key options has, a key holding undefined included
searchOptionsOf(options) ==
  [startTime  |-> IF "startTime" \in options.keys THEN options.startTime
                                                 ELSE DefaultOptions.startTime,
   endTime    |-> IF "endTime" \in options.keys THEN options.endTime
                                               ELSE DefaultOptions.endTime,
   maxResults |-> DefaultOptions.maxResults]

\* ------------------------------------------------------------------------
\* Persisted key-value store (addon-chrome/db, not among the sources):
\* a table is a set of records keyed by url
\* ------------------------------------------------------------------------
\* db.addOrUpdateExisting(table, record): upsert by url
dbAddOrUpdateExisting(table, record) ==
  { r \in table : r.url # record.url } \cup {record}

\* db.remove(table, url)
dbRemove(table, url) == { r \in table : r.url # url }

\* db.removeAll(table)
dbRemoveAll(table) == {}

\* db.getAll(table)
dbGetAll(table) == table

\* ------------------------------------------------------------------------
\* State
\* ------------------------------------------------------------------------
VARIABLES
  histories,      \* ranker: the list handed to _getTopFrecentSites
  topSites,       \* ranker: the list it returned
  rankPc,         \* ranker: "ready" before the call, "resolved" after
  nativeHistory,  \* chrome.history: raw items, newest first
  nativeTree,     \* chrome.bookmarks: the tree getTree hands over
  blockedStore,   \* the persisted BLOCKED_URL table
  dbWrites,       \* blocklist writes issued and not yet done, in issue order
  blockLog,       \* blocklist writes done, in completion order
  calls,          \* the provider calls issued so far, each with its position
  rev,            \* which preview provider is loaded
  metadataStore,  \* the persisted METADATA table
  jobs,           \* the _getMetadata calls issued so far, each with its position
  batches,        \* the getLinksMetadata calls issued so far
  limiters,       \* the queue and timer of every _rateLimit call
  submitted,      \* jobs handed to _rateLimit, in submission order
  fetchStarted,   \* fetches initiated, in order, with the clock at their start
  clock,          \* real milliseconds since the page was loaded
  dispatched,     \* the events dispatched to the presentation layer, in order
  nativeEvents,   \* chrome events fired and not yet handed to their listener
  arrayGiven,     \* shuffle: the array as it was handed in
  array,          \* shuffle: the array, swapped in place
  arrayLen,       \* shuffle: the elements that remain to shuffle
  localStorage,   \* history cache: the keys set in window.localStorage
  historyTable,   \* history cache: the persisted HISTORY table
  paging,         \* history cache: the chain of _pageHistory calls
  pagingStarts    \* history cache: how often _cacheHistory started the paging

rankVars == <<histories, topSites, rankPc>>

aggVars == <<nativeHistory, nativeTree, blockedStore, dbWrites, blockLog, calls>>

enrichVars ==
  <<rev, metadataStore, jobs, batches, limiters, submitted, fetchStarted, clock>>

eventVars == <<dispatched, nativeEvents>>

shuffleVars == <<arrayGiven, array, arrayLen>>

cacheVars == <<localStorage, historyTable, paging, pagingStarts>>

loopVars == <<shuffleVars, cacheVars>>

vars == <<rankVars, aggVars, enrichVars, eventVars, loopVars>>

\* what the aggregator and the blocklist leave alone
notAggVars == <<rankVars, enrichVars, eventVars, loopVars>>

\* ------------------------------------------------------------------------
\* Ranker as a pure function of its input: every input list of at most
\* MaxHist history links, as getHistory hands them over (transformed).
\* ------------------------------------------------------------------------
MaxHist == 3

RankVisitCounts == {1, 2}

\* lastVisitTime in ticks: half a model millisecond ago, 200 days ago, and
\* 210 days ago less half a model millisecond
RankVisitTimes ==
  { Today * SubMs - 1,
    (Today - 200 * UnitsPerDay) * SubMs,
    (Today - 210 * UnitsPerDay) * SubMs + 1 }

\* two urls of one host, one of another host, and a search result
RankUrls == {2, 3, 4, 6}

RankLinks ==
  { _transformHistory(HistoryItem(u, vc, t), <<>>) :
      u \in RankUrls, vc \in RankVisitCounts, t \in RankVisitTimes }

SeqsUpTo(S, n) == UNION { [1..k -> S] : k \in 0..n }

\* no shuffle has been called and no history has been cached
LoopIdle ==
  /\ arrayGiven = <<>>
  /\ array = <<>>
  /\ arrayLen = 0
  /\ localStorage = {}
  /\ historyTable = {}
  /\ paging = [pc |-> "off", startTime |-> 0, endTime |-> 0]
  /\ pagingStarts = 0

RankIdle ==
  /\ histories = <<>>
  /\ topSites = <<>>
  /\ rankPc = "off"

AggIdle ==
  /\ nativeHistory = <<>>
  /\ nativeTree = <<>>
  /\ blockedStore = {}
  /\ dbWrites = <<>>
  /\ blockLog = <<>>
  /\ calls = <<>>

EnrichIdle ==
  /\ rev = "part_001"
  /\ metadataStore = {}
  /\ jobs = <<>>
  /\ batches = <<>>
  /\ limiters = <<>>
  /\ submitted = <<>>
  /\ fetchStarted = <<>>
  /\ clock = 0

InitRank ==
  /\ dispatched = <<>>
  /\ nativeEvents = <<>>
  /\ LoopIdle
  /\ histories \in SeqsUpTo(RankLinks, MaxHist)
  /\ topSites = <<>>
  /\ rankPc = "ready"
  /\ AggIdle
  /\ EnrichIdle

\* topFrecentSites (lines 13-20), the step after getHistory resolved
RankTopSites ==
  /\ rankPc = "ready"
  /\ topSites' = _getTopFrecentSites(histories)
  /\ rankPc' = "resolved"
  /\ UNCHANGED <<histories, aggVars, enrichVars, eventVars, loopVars>>

NextRank == RankTopSites

SpecRank == InitRank /\ [][NextRank]_vars

\* ------------------------------------------------------------------------
\* The frecency score as a pure function of a link, in the two revisions of
\* the places provider: ChromePlacesProvider.js (lines 240-247) and the
\* earlier part_000 (lines 619-624).
\* ------------------------------------------------------------------------
RECURSIVE Gcd(_, _)
Gcd(a, b) == IF b = 0 THEN a ELSE Gcd(b, a % b)

\* _calculateFrecency of part_000: the difference of two millisecond
\* timestamps divided by microsecondsPerDay, so that age is the number of
\* days divided by 1000.  With d = today - lastVisitDate and D = one day,
\* age = d / (1000 * D) = a / b in lowest terms, and
\* 100*225/(age*age + 225) = 100*225*b*b / (a*a + 225*b*b).
_calculateFrecency_part000(hist) ==
  LET d  == Today - hist.lastVisitDate
      g  == Gcd(1000 * UnitsPerDay, d)
      a  == d \div g
      b  == (1000 * UnitsPerDay) \div g
      k  == 100 * 225 * b * b
      d0 == a * a + 225 * b * b
  IN  IF k > d0 THEN [vc |-> hist.visitCount, num |-> k, den |-> d0]
                ELSE [vc |-> hist.visitCount, num |-> 1, den |-> 1]

\* the score, by the revision that computes it
frecencyBy(revision, hist) ==
  IF revision = "part_000" THEN _calculateFrecency_part000(hist)
                           ELSE _calculateFrecency(hist)

RankerRevisions == {"ChromePlacesProvider.js", "part_000"}

FrecencyVisitCounts == {0, 1, 2, 10}

\* lastVisitDate: now, and 10, 20, 100 and 200 days ago
FrecencyVisitDates ==
  { Today - n * UnitsPerDay : n \in {0, 10, 20, 100, 200} }

FrecencyLinks ==
  { [HistoryItem(2, vc, visited * SubMs) EXCEPT !.lastVisitDate = visited] :
      vc \in FrecencyVisitCounts, visited \in FrecencyVisitDates }

InitFrecency ==
  /\ dispatched = <<>>
  /\ nativeEvents = <<>>
  /\ LoopIdle
  /\ histories \in [1..2 -> FrecencyLinks]
  /\ topSites = <<>>
  /\ rankPc = "ready"
  /\ AggIdle
  /\ rev \in RankerRevisions
  /\ metadataStore = {}
  /\ jobs = <<>>
  /\ batches = <<>>
  /\ limiters = <<>>
  /\ submitted = <<>>
  /\ fetchStarted = <<>>
  /\ clock = 0

\* .map((hist) => Object.assign(hist, {frencency: this._calculateFrecency(hist)}))
\* (ChromePlacesProvider.js lines 207-210; part_000 lines 586-589)
mapCalculateFrecency ==
  /\ rankPc = "ready"
  /\ topSites' = [i \in 1..Len(histories) |->
                    [histories[i] EXCEPT !.frencency = frecencyBy(rev, histories[i])]]
  /\ rankPc' = "resolved"
  /\ UNCHANGED <<histories, aggVars, enrichVars, eventVars, loopVars>>

NextFrecency == mapCalculateFrecency

SpecFrecency == InitFrecency /\ [][NextFrecency]_vars

\* ------------------------------------------------------------------------
\* C1.  For every input list of history links, the list returned by the
\* top-sites ranker never contains two links whose urls have the same host.
\* ------------------------------------------------------------------------
NoTwoSameHost(rows) ==
  \A i, j \in 1..Len(rows) :
    i # j => urlParseHost(rows[i].url) # urlParseHost(rows[j].url)

C1_TopSitesDistinctHosts ==
  rankPc = "resolved" => NoTwoSameHost(topSites)

\* the ranker has returned for an input holding two links of one host
C1_Witness ==
  /\ rankPc = "resolved"
  /\ ~NoTwoSameHost(histories)

\* ------------------------------------------------------------------------
\* C2.  The ranker's output is ordered by a total order: descending
\* frecency, then higher lastVisitTime first, then greater url first; and
\* the comparison used for it is antisymmetric and transitive.
\* ------------------------------------------------------------------------
\* x comes strictly before y in the documented order
RanksBefore(x, y) ==
  \/ FrecencyGT(x.frencency, y.frencency)
  \/ /\ ~FrecencyGT(y.frencency, x.frencency)
     /\ \/ x.lastVisitTime > y.lastVisitTime
        \/ x.lastVisitTime = y.lastVisitTime /\ x.url > y.url

OrderedByRank(rows) ==
  \A i, j \in 1..Len(rows) : i < j => ~RanksBefore(rows[j], rows[i])

ComparatorAntisymmetric(rows) ==
  \A i, j \in 1..Len(rows) :
    compareFrecency(rows[i], rows[j]) < 0 => compareFrecency(rows[j], rows[i]) > 0

ComparatorTransitive(rows) ==
  \A i, j, k \in 1..Len(rows) :
    compareFrecency(rows[i], rows[j]) < 0 /\ compareFrecency(rows[j], rows[k]) < 0
      => compareFrecency(rows[i], rows[k]) < 0

\* the claim as stated; the comparator is applied to the scored input links
C2_TopSitesTotalOrder ==
  rankPc = "resolved" =>
    /\ OrderedByRank(topSites)
    /\ ComparatorAntisymmetric(withFrecency(histories))
    /\ ComparatorTransitive(withFrecency(histories))

\* ------------------------------------------------------------------------
\* Aggregator and blocklist as a state machine.  A call of getHistory,
\* _getBookmarks or _filterBlockedUrls is a record that moves from one
\* suspension point to the next; blocklist writes complete on their own.
\* ------------------------------------------------------------------------
MaxCalls == 1

MaxWrites == 3

\* the urls the user blocks
BlockUrls == {2, 4}

\* the native stores the model starts from: the raw history, newest first,
\* and the bookmark tree; the last one holds one bookmark more than
\* _getBookmarks returns by default
NativeStores ==
  { [history |-> << HistoryItem(3, 2, Today * SubMs - 3),
                    HistoryItem(2, 5, (Today - 200 * UnitsPerDay) * SubMs),
                    HistoryItem(4, 1, (Today - 210 * UnitsPerDay) * SubMs + 1) >>,
     tree |-> << TreeFolder(0, << TreeFolder(1, << TreeLink(11, 2, Today - 200),
                                                   TreeLink(12, 4, Today - 10) >>),
                                  TreeLink(13, 3, Today - 300) >>) >>],
    [history |-> << HistoryItem(4, 4, Today * SubMs - 5) >>,
     tree |-> << TreeFolder(0, << TreeLink(11, 2, Today - 200),
                                  TreeFolder(2, << TreeLink(12, 2, Today - 100) >>) >>) >>],
    [history |-> << HistoryItem(2, 5, Today * SubMs - 7) >>,
     tree |-> << TreeFolder(0, << TreeLink(11, 2, Today - 500) >>
                               \o [i \in 1..DefaultOptions.maxResults |->
                                     TreeLink(20 + i, 3, Today - 100 - i)]) >>] }

\* action.data.beforeDate of a RECENT_LINKS request that appends
BeforeDate == Today - 205 * UnitsPerDay

\* the options getHistory is called with: none (recentLinks()), the
\* endTime of an appending request, set or left undefined
\* (ChromePlacesAction.js lines 47-48), and both bounds with startTime 0
HistoryOptions ==
  { NoOptions,
    [keys |-> {"endTime"}, startTime |-> Undefined, endTime |-> BeforeDate],
    [keys |-> {"endTime"}, startTime |-> Undefined, endTime |-> Undefined],
    [keys |-> {"startTime", "endTime"}, startTime |-> 0, endTime |-> BeforeDate] }

\* a link as getHistory hands it over
FilterLink(u) ==
  _transformHistory(HistoryItem(u, 1, (Today - 200 * UnitsPerDay) * SubMs), <<>>)

\* the lists handed to _filterBlockedUrls directly
FilterLists ==
  { <<>>,
    << FilterLink(2) >>,
    << FilterLink(3), FilterLink(2) >>,
    << FilterLink(4), FilterLink(2), FilterLink(3) >>,
    << FilterLink(2), FilterLink(4), FilterLink(2) >> }

\* the blocklist writes issued so far, completed or not
WritesIssued == Len(dbWrites) + Len(blockLog)

\* a call: what was called, where it stands, the list waiting for the
\* blocklist (items), the search results kept meanwhile (results), the
\* blocklist it read last (blockedRead) and how many writes were done by
\* then (readAt), the list it resolved with (value), the search options of
\* a getHistory call (options), and whether a native query of the call
\* failed (nativeFailed), the beforeDate its _getBookmarks runs with, and,
\* for a request a command handler made, the number of blocklist writes
\* issued before it (issuedAt), the type of the event its handler
\* dispatches when it resolves (respond) and the meta.append of that event
NewCall(kind, pc, items) ==
  [kind |-> kind, pc |-> pc, items |-> items, results |-> <<>>,
   blockedRead |-> {}, readAt |-> 0, value |-> <<>>,
   options |-> searchOptionsOf(NoOptions), nativeFailed |-> FALSE,
   beforeDate |-> DefaultOptions.beforeDate, issuedAt |-> Undefined,
   respond |-> "", append |-> FALSE]

\* the writes done when the call read the blocklist, in completion order
logAtRead(call) == SubSeq(blockLog, 1, call.readAt)

InitAgg ==
  /\ dispatched = <<>>
  /\ nativeEvents = <<>>
  /\ LoopIdle
  /\ \E native \in NativeStores :
       /\ nativeHistory = native.history
       /\ nativeTree = native.tree
  /\ blockedStore = {}
  /\ dbWrites = <<>>
  /\ blockLog = <<>>
  /\ calls = <<>>
  /\ RankIdle
  /\ EnrichIdle

\* addBlockedUrl (lines 95-97): db.addOrUpdateExisting(BLOCKED_URL, {url})
\* is handed to the store
addBlockedUrl(url) ==
  /\ WritesIssued < MaxWrites
  /\ dbWrites' = Append(dbWrites,
       [by |-> "addBlockedUrl", op |-> "addOrUpdateExisting", url |-> url])
  /\ UNCHANGED <<notAggVars, nativeHistory, nativeTree, blockedStore, blockLog, calls>>

\* unblockAllUrl with db.remove(BLOCKED_URL) in place of db.removeAll
unblockAllUrl_remove ==
  /\ WritesIssued < MaxWrites
  /\ dbWrites' = Append(dbWrites,
       [by |-> "unblockAllUrl", op |-> "remove", url |-> Undefined])
  /\ UNCHANGED <<notAggVars, nativeHistory, nativeTree, blockedStore, blockLog, calls>>

\* unblockAllUrl (lines 104-106): db.removeAll(BLOCKED_URL) is handed to
\* the store
unblockAllUrl ==
  /\ WritesIssued < MaxWrites
  /\ dbWrites' = Append(dbWrites,
       [by |-> "unblockAllUrl", op |-> "removeAll", url |-> Undefined])
  /\ UNCHANGED <<notAggVars, nativeHistory, nativeTree, blockedStore, blockLog, calls>>

\* the store completes its oldest pending write
DbWriteDone ==
  /\ dbWrites # <<>>
  /\ LET w == Head(dbWrites)
     IN  /\ blockedStore' =
              CASE w.op = "removeAll" -> dbRemoveAll(blockedStore)
                [] w.op = "remove" -> dbRemove(blockedStore, w.url)
                [] OTHER -> dbAddOrUpdateExisting(blockedStore, [url |-> w.url])
         /\ blockLog' = Append(blockLog, w)
  /\ dbWrites' = Tail(dbWrites)
  /\ UNCHANGED <<notAggVars, nativeHistory, nativeTree, calls>>

\* getHistory (lines 151-179) up to chrome.history.search being issued
getHistoryCall(options) ==
  /\ Len(calls) < MaxCalls
  /\ calls' = Append(calls, [NewCall("getHistory", "search", <<>>)
                              EXCEPT !.options = searchOptionsOf(options)])
  /\ UNCHANGED <<notAggVars, nativeHistory, nativeTree, blockedStore, dbWrites, blockLog>>

\* _getBookmarks (lines 117-138) up to chrome.bookmarks.getTree being issued
getBookmarksCall ==
  /\ Len(calls) < MaxCalls
  /\ calls' = Append(calls, NewCall("_getBookmarks", "tree", <<>>))
  /\ UNCHANGED <<notAggVars, nativeHistory, nativeTree, blockedStore, dbWrites, blockLog>>

\* action.data.beforeDate of a RECENT_BOOKMARKS request: none, or a date
\* between the bookmarks
BookmarkDates == {Undefined, Today - 150}

\* the handler of a RECENT_BOOKMARKS request (ChromePlacesAction.js lines
\* 21-34) and recentBookmarks (lines 29-31) up to chrome.bookmarks.getTree
\* being issued by _getBookmarks(options); a beforeDate left undefined takes
\* the default of line 117
recentBookmarksCall(beforeDate) ==
  /\ Len(calls) < MaxCalls
  /\ calls' = Append(calls,
       [NewCall("recentBookmarks", "tree", <<>>) EXCEPT
          !.beforeDate = IF beforeDate = Undefined THEN DefaultOptions.beforeDate
                                                   ELSE beforeDate,
          !.issuedAt = WritesIssued,
          !.respond = "RECENT_BOOKMARKS_RESPONSE",
          !.append = (beforeDate # Undefined)])
  /\ UNCHANGED <<notAggVars, nativeHistory, nativeTree, blockedStore, dbWrites, blockLog>>

\* _filterBlockedUrls (lines 313-315) up to db.getAll being issued
filterBlockedUrlsCall(items) ==
  /\ Len(calls) < MaxCalls
  /\ calls' = Append(calls, NewCall("_filterBlockedUrls", "filter", items))
  /\ UNCHANGED <<notAggVars, nativeHistory, nativeTree, blockedStore, dbWrites, blockLog>>

\* the callback of chrome.history.search (lines 166-172): post-filter the
\* results, then call _getBookmarks()
historySearchCallback(c) ==
  /\ calls[c].pc = "search"
  /\ calls' = [calls EXCEPT
       ![c].results = withinTimes(
          historySearch(nativeHistory, calls[c].options.startTime,
                        calls[c].options.endTime, calls[c].options.maxResults),
          calls[c].options.startTime, calls[c].options.endTime),
       ![c].pc = "tree"]
  /\ UNCHANGED <<notAggVars, nativeHistory, nativeTree, blockedStore, dbWrites, blockLog>>

\* chrome.history.search fails: chrome sets runtime.lastError and calls the
\* callback without results.  With both bounds truthy results.filter
\* throws (line 170) inside the callback; otherwise the callback goes on to
\* _getBookmarks and results.map throws later (line 174).  The executor of
\* the promise has no reject (line 165).
historySearchFailed(c) ==
  /\ calls[c].pc = "search"
  /\ calls' = [calls EXCEPT
       ![c].nativeFailed = TRUE,
       ![c].pc = IF ~Falsy(calls[c].options.startTime) /\ ~Falsy(calls[c].options.endTime)
                 THEN "threw" ELSE "tree"]
  /\ UNCHANGED <<notAggVars, nativeHistory, nativeTree, blockedStore, dbWrites, blockLog>>

\* chrome.bookmarks.getTree fails: the callback runs without trees and
\* trees.forEach throws in _collectBookmarks (lines 121, 363)
getTreeFailed(c) ==
  /\ calls[c].pc = "tree"
  /\ calls' = [calls EXCEPT ![c].nativeFailed = TRUE, ![c].pc = "threw"]
  /\ UNCHANGED <<notAggVars, nativeHistory, nativeTree, blockedStore, dbWrites, blockLog>>

\* the callback of chrome.bookmarks.getTree (lines 119-135): build the
\* bookmark list and hand it to _filterBlockedUrls
getTreeCallback(c) ==
  /\ calls[c].pc = "tree"
  /\ calls' = [calls EXCEPT
       ![c].items = collectedBookmarks(nativeTree, calls[c].beforeDate,
                                       DefaultOptions.maxResults),
       ![c].pc = IF calls[c].kind = "getHistory" THEN "bookmarksFilter" ELSE "filter"]
  /\ UNCHANGED <<notAggVars, nativeHistory, nativeTree, blockedStore, dbWrites, blockLog>>

\* db.getAll(BLOCKED_URL) resolves inside _filterBlockedUrls (lines 316-320).
\* The bookmarks of a recentBookmarks call are sorted once more (lines
\* 32-42) before they are resolved with.
\* For the bookmarks of a getHistory call the list resolves into lines
\* 173-175: the histories are built and handed to _filterBlockedUrls in turn
\* (results.map throws there if the search had failed).
getAllBlockedResolved(c) ==
  /\ calls[c].pc \in {"bookmarksFilter", "filter"}
  /\ LET blockedUrlItems == dbGetAll(blockedStore)
         nonBlockedUrls  == _filterBlockedUrls(calls[c].items, blockedUrlItems)
     IN  calls' = [calls EXCEPT
           ![c].blockedRead = { b.url : b \in blockedUrlItems },
           ![c].readAt = Len(blockLog),
           ![c].items = IF calls[c].pc = "bookmarksFilter" /\ ~calls[c].nativeFailed
                        THEN mapTransformHistory(calls[c].results, nonBlockedUrls)
                        ELSE calls[c].items,
           ![c].value = IF calls[c].pc # "filter" THEN <<>>
                        ELSE IF calls[c].kind = "recentBookmarks"
                             THEN sortByDateAdded(nonBlockedUrls)
                             ELSE nonBlockedUrls,
           ![c].pc = IF calls[c].pc = "bookmarksFilter"
                     THEN (IF calls[c].nativeFailed THEN "threw" ELSE "filter")
                     ELSE "resolved"]
  /\ UNCHANGED <<notAggVars, nativeHistory, nativeTree, blockedStore, dbWrites, blockLog>>

NextAgg ==
  \/ \E u \in BlockUrls : addBlockedUrl(u)
  \/ unblockAllUrl
  \/ DbWriteDone
  \/ getHistoryCall(NoOptions)
  \/ getBookmarksCall
  \/ \E items \in FilterLists : filterBlockedUrlsCall(items)
  \/ \E c \in 1..Len(calls) : historySearchCallback(c)
  \/ \E c \in 1..Len(calls) : getTreeCallback(c)
  \/ \E c \in 1..Len(calls) : getAllBlockedResolved(c)

SpecAgg == InitAgg /\ [][NextAgg]_vars

\* The same machine with the requests the command handlers make: getHistory
\* with options, recentBookmarks, and native queries that fail.
NextRequests ==
  \/ NextAgg
  \/ \E options \in HistoryOptions : getHistoryCall(options)
  \/ \E beforeDate \in BookmarkDates : recentBookmarksCall(beforeDate)
  \/ \E c \in 1..Len(calls) : historySearchFailed(c)
  \/ \E c \in 1..Len(calls) : getTreeFailed(c)

SpecRequests == InitAgg /\ [][NextRequests]_vars

\* The event loop runs every callback that is due: the callback of a native
\* query, the continuation of a db.getAll read, the completion of a write.
AggFairness ==
  /\ WF_vars(DbWriteDone)
  /\ \A c \in 1..MaxCalls :
       WF_vars(c <= Len(calls) /\ (\/ historySearchCallback(c) \/ historySearchFailed(c)
                                   \/ getTreeCallback(c) \/ getTreeFailed(c)
                                   \/ getAllBlockedResolved(c)))

\* The progress of one request does not depend on the size of the bookmark
\* tree: the runs that are followed to their end start from the stores whose
\* bookmarks all fit in one page of results.
InitAggLive ==
  /\ InitAgg
  /\ Len(_collectBookmarks(nativeTree)) < DefaultOptions.maxResults

SpecAggLive == InitAggLive /\ [][NextRequests]_vars /\ AggFairness

\* ------------------------------------------------------------------------
\* The bookmark traversal as a pure function of the tree: every tree of a
\* root folder with up to two nodes, each a link or a folder of up to two
\* nodes, each of those a link or an empty folder, and a node that has both
\* a url and a child (the two tests of lines 364 and 369 are independent).
\* The node at place i of the root has id i, the node at place k below it
\* has id 10 * i + k.
\* ------------------------------------------------------------------------
CollectKids(i) ==
  UNION { [1..n -> {"link", "folder"}] : n \in 0..2 }

CollectKidNode(i, k, what) ==
  IF what = "link" THEN TreeLink(10 * i + k, 3, Today - 100)
                   ELSE TreeFolder(10 * i + k, <<>>)

CollectTopNodes(i) ==
  { TreeLink(i, 2, Today - 200),
    [TreeLink(i, 2, Today - 200) EXCEPT !.children = << CollectKidNode(i, 1, "link") >>] }
    \cup { TreeFolder(i, [k \in 1..Len(kinds) |-> CollectKidNode(i, k, kinds[k])]) :
             kinds \in CollectKids(i) }

CollectTrees ==
  { << TreeFolder(0, <<>>) >> }
    \cup { << TreeFolder(0, <<a>>) >> : a \in CollectTopNodes(1) }
    \cup { << TreeFolder(0, <<a, b>>) >> : a \in CollectTopNodes(1), b \in CollectTopNodes(2) }

InitCollect ==
  /\ dispatched = <<>>
  /\ nativeEvents = <<>>
  /\ LoopIdle
  /\ nativeTree \in CollectTrees
  /\ nativeHistory = <<>>
  /\ blockedStore = {}
  /\ dbWrites = <<>>
  /\ blockLog = <<>>
  /\ calls = <<>>
  /\ RankIdle
  /\ EnrichIdle

\* lines 120-121 of _getBookmarks: rawBookmarks after
\* this._collectBookmarks(trees, rawBookmarks)
collectBookmarksCall ==
  /\ calls = <<>>
  /\ calls' = << [NewCall("_collectBookmarks", "resolved", <<>>)
                    EXCEPT !.value = _collectBookmarks(nativeTree)] >>
  /\ UNCHANGED <<notAggVars, nativeHistory, nativeTree, blockedStore, dbWrites, blockLog>>

NextCollect == collectBookmarksCall

SpecCollect == InitCollect /\ [][NextCollect]_vars

\* ------------------------------------------------------------------------
\* C5: starting from an empty blocklist, once block(u) has completed,
\* _filterBlockedUrls(L) resolves with exactly the links of L whose url is
\* not u, in their order in L.
\* ------------------------------------------------------------------------
LinksOtherThan(L, u) == SelectSeq(L, LAMBDA link : link.url # u)

\* the blocklist a call read held the one completed write block(u)
ReadAfterOneBlock(call) ==
  /\ call.kind = "_filterBlockedUrls"
  /\ call.pc = "resolved"
  /\ Len(logAtRead(call)) = 1
  /\ logAtRead(call)[1].by = "addBlockedUrl"

C5_BlockThenFilterRemovesExactlyU ==
  \A c \in 1..Len(calls) :
    ReadAfterOneBlock(calls[c]) =>
      calls[c].value = LinksOtherThan(calls[c].items, logAtRead(calls[c])[1].url)

\* a list with the blocked url, and with another url of the same host, filtered
C5_Witness ==
  \E c \in 1..Len(calls) :
    /\ ReadAfterOneBlock(calls[c])
    /\ \E i, j \in 1..Len(calls[c].items) :
         /\ calls[c].items[i].url = logAtRead(calls[c])[1].url
         /\ calls[c].items[j].url # logAtRead(calls[c])[1].url
         /\ urlParseHost(calls[c].items[j].url) = urlParseHost(calls[c].items[i].url)

\* ------------------------------------------------------------------------
\* C6: after any sequence of block operations followed by a completed
\* unblockAll, _filterBlockedUrls(L) resolves with L itself.
\* ------------------------------------------------------------------------
ReadAfterUnblockAll(call) ==
  /\ call.kind = "_filterBlockedUrls"
  /\ call.pc = "resolved"
  /\ logAtRead(call) # <<>>
  /\ logAtRead(call)[Len(logAtRead(call))].by = "unblockAllUrl"
  /\ \A k \in 1..(Len(logAtRead(call)) - 1) : logAtRead(call)[k].by = "addBlockedUrl"

C6_UnblockAllThenFilterIsIdentity ==
  \A c \in 1..Len(calls) :
    ReadAfterUnblockAll(calls[c]) => calls[c].value = calls[c].items

\* a list holding a url that was blocked before the unblockAll
C6_Witness ==
  \E c \in 1..Len(calls) :
    /\ ReadAfterUnblockAll(calls[c])
    /\ \E k \in 1..(Len(logAtRead(calls[c])) - 1), i \in 1..Len(calls[c].items) :
         calls[c].items[i].url = logAtRead(calls[c])[k].url

\* ------------------------------------------------------------------------
\* C7: a list getHistory or _getBookmarks resolves with holds no link whose
\* url was in the blocklist as that request read it.
\* ------------------------------------------------------------------------
AggregatorResolved(call) ==
  /\ call.kind \in {"getHistory", "_getBookmarks"}
  /\ call.pc = "resolved"

C7_AggregatorResultsNotBlocked ==
  \A c \in 1..Len(calls) :
    AggregatorResolved(calls[c]) =>
      \A i \in 1..Len(calls[c].value) : calls[c].value[i].url \notin calls[c].blockedRead

\* a getHistory call whose unfiltered list held a url of the blocklist it read
C7_Witness ==
  \E c \in 1..Len(calls) :
    /\ AggregatorResolved(calls[c])
    /\ calls[c].kind = "getHistory"
    /\ calls[c].value # <<>>
    /\ \E i \in 1..Len(calls[c].items) : calls[c].items[i].url \in calls[c].blockedRead

\* ------------------------------------------------------------------------
\* Highlight selection (ChromePlacesProvider.js)
\* ------------------------------------------------------------------------
\* _isHighlightItem (lines 289-305)
threeDays == (3 * 24 * 60 * 60 * 1000) \div MsPerUnit

thirtyMinutes == (30 * 60 * 1000) \div MsPerUnit

_isHighlightItem(item) ==
  LET isThreeDaysOrOlder ==
        ~Falsy(item.dateAdded) /\ Today - item.dateAdded > threeDays
      isThirtyMinutesOrOlder ==
        /\ Falsy(item.dateAdded)
        /\ ~Falsy(item.lastVisitDate)
        /\ Today - item.lastVisitDate > thirtyMinutes
      isVisitCountAtMostThree ==
        (IF Falsy(item.visitCount) THEN 0 ELSE item.visitCount) <= 3
  IN  (isThirtyMinutesOrOlder \/ isThreeDaysOrOlder) /\ isVisitCountAtMostThree

\* rows of _getHighlights with the three .filter calls left out
highlightRows_unfiltered(bookmarks, hists) == bookmarks \o hists

\* rows of _getHighlights (lines 266-270)
highlightRows(bookmarks, hists) ==
  SelectSeq(excludeFiltered(bookmarks) \o excludeFiltered(hists), _isHighlightItem)

\* _.shuffle(rows): every order of the rows
shuffle(rows) ==
  { [i \in 1..Len(rows) |-> rows[perm[i]]] : perm \in Permutations(1..Len(rows)) }

\* ------------------------------------------------------------------------
\* The highlight criteria as a pure function of one candidate: the item is
\* drawn with and without each of dateAdded, lastVisitDate and visitCount,
\* on either side of each threshold, and line 269 is applied to it.
\* ------------------------------------------------------------------------
HighlightDatesAdded == { Undefined, Today - 1, Today - threeDays, Today - threeDays - 1 }

HighlightVisitDates ==
  { Undefined, Today, Today - thirtyMinutes, Today - thirtyMinutes - 1, Today - threeDays - 1 }

HighlightVisitCounts == { Undefined, 0, 3, 4 }

HighlightItems ==
  { [HistoryItem(2, vc, Undefined) EXCEPT !.dateAdded = added, !.lastVisitDate = visited] :
      vc \in HighlightVisitCounts, added \in HighlightDatesAdded,
      visited \in HighlightVisitDates }

InitHighlight ==
  /\ dispatched = <<>>
  /\ nativeEvents = <<>>
  /\ LoopIdle
  /\ histories \in { <<item>> : item \in HighlightItems }
  /\ topSites = <<>>
  /\ rankPc = "ready"
  /\ AggIdle
  /\ EnrichIdle

\* .filter((item) => this._isHighlightItem(item)) (lines 268-269)
filterIsHighlightItem ==
  /\ rankPc = "ready"
  /\ topSites' = SelectSeq(histories, _isHighlightItem)
  /\ rankPc' = "resolved"
  /\ UNCHANGED <<histories, aggVars, enrichVars, eventVars, loopVars>>

NextHighlight == filterIsHighlightItem

SpecHighlight == InitHighlight /\ [][NextHighlight]_vars

\* ------------------------------------------------------------------------
\* Metadata enrichment (part_001, and its earlier revision
\* ChromePreviewProvider.js)
\* ------------------------------------------------------------------------
\* _rateLimit's default delay, in real milliseconds
delay == 100

imageWidth == 450

imageHeight == 278

\* .slice(0, 8) of getLinksMetadata
MaxEnriched == 8

\* sites.length = 20 of the earlier getLinksMetadata
MaxHighlighted == 20

\* /(google|localhost|chrome)/.test(url)
googleLocalhostChromeRegex(u) ==
  UrlTable[u].search \/ UrlTable[u].local \/ UrlTable[u].chrome

\* what db.getItem resolves with when the table has no record for the key
NoItem == [url |-> 0, images |-> <<>>, description |-> ""]

\* db.getItem(table, {url})
dbGetItem(table, url) ==
  IF \E r \in table : r.url = url THEN CHOOSE r \in table : r.url = url ELSE NoItem

\* the persisted record with the description left out
metadataOf_withoutDescription(site) ==
  [url |-> site.url, images |-> site.images, description |-> ""]

\* the record both revisions persist: {url, images, description}
metadataOf(site) ==
  [url |-> site.url, images |-> site.images, description |-> site.description]

\* Object.assign(site, metadata)
assignMetadata(site, metadata) ==
  [site EXCEPT !.images = metadata.images, !.description = metadata.description]

\* what page-metadata-parser's getMetadata can hand back for a page;
\* "" stands for a field the page does not have (icon_url is not modelled)
PageMetadatas ==
  { [image_url |-> "image", description |-> "text"],
    [image_url |-> "", description |-> "text"] }

\* _fetchMetadata's last callback (part_001 lines 79-105): the fields found
\* are assigned to the site
withPageMetadata(site, pageMetadata) ==
  [site EXCEPT
     !.images = IF pageMetadata.image_url # ""
                THEN << [url |-> pageMetadata.image_url,
                         width |-> imageWidth, height |-> imageHeight] >>
                ELSE @,
     !.description = IF pageMetadata.description # ""
                     THEN pageMetadata.description
                     ELSE @]

\* the hit test of _getMetadata: part_001 line 46 is if (metadata), the
\* earlier revision's line 50 is if (metadata && metadata.images !== undefined)
isCacheHit(revision, metadata) ==
  IF revision = "part_001"
  THEN metadata # NoItem
  ELSE metadata # NoItem /\ metadata.images # <<>>

\* processQueue (part_001 lines 121-129) on one closure: shift an item and
\* start it; with the queue empty, clear the timer
processQueue(l) ==
  LET item == IF l.queue # <<>> THEN <<Head(l.queue)>> ELSE <<>>
      queue == IF l.queue # <<>> THEN Tail(l.queue) ELSE <<>>
  IN  [queue |-> queue,
       timer |-> IF queue = <<>> THEN Undefined ELSE l.timer,
       started |-> item]

\* a limiter whose queue and timer are shared by every call, which puts a
\* new item in front of the queue and leaves every start to the interval
rateLimit_sharedLifo(lims, job, now) ==
  LET l0 == IF lims = <<>> THEN [queue |-> <<>>, timer |-> Undefined] ELSE lims[1]
  IN  [limiters |-> << [queue |-> <<job>> \o l0.queue,
                        timer |-> IF l0.timer = Undefined THEN now + delay
                                  ELSE l0.timer] >>,
       started |-> <<>>]

\* a limiter whose queue and timer are shared by every call: a submission
\* that finds the timer running only queues its item
rateLimit_shared(lims, job, now) ==
  LET l0 == IF lims = <<>> THEN [queue |-> <<>>, timer |-> Undefined] ELSE lims[1]
  IN  IF l0.timer = Undefined
      THEN [limiters |-> << [queue |-> <<>>, timer |-> now + delay] >>,
            started |-> <<job>>]
      ELSE [limiters |-> << [queue |-> Append(l0.queue, job), timer |-> l0.timer] >>,
            started |-> <<>>]

\* _rateLimit (part_001 lines 117-141; rateLimit, lines 113-137 of the
\* earlier revision): the call makes its own queue and timer, pushes the
\* item, and as its timer is null runs processQueue and sets the interval
_rateLimit(lims, job, now) ==
  LET pushed == [queue |-> <<job>>, timer |-> Undefined]
      p == processQueue(pushed)
  IN  [limiters |-> Append(lims, [queue |-> p.queue, timer |-> now + delay]),
       started |-> p.started]

\* a _getMetadata call: its site object, the getLinksMetadata call it
\* belongs to (0 for cacheMetadata), where it stands, what db.getItem
\* resolved with, how its fetch ended, whether its fetch was started without
\* a resolve function, whether the metadata of its url was removed after
\* the call was made
NewJob(site, batch, pc) ==
  [site |-> site, batch |-> batch, pc |-> pc, found |-> NoItem,
   outcome |-> "none", unresolvable |-> FALSE, invalidated |-> FALSE]

\* ------------------------------------------------------------------------
\* Highlights and enrichment as a state machine
\* ------------------------------------------------------------------------
MaxJobs == 2

MaxBatches == 2

\* the clock advances in steps of ClockStep up to MaxClock
ClockStep == 100

MaxClock == 100

Revisions == {"part_001", "ChromePreviewProvider.js"}

\* a site as getHistory hands it over
EnrichLink(u) ==
  _transformHistory(HistoryItem(u, 1, (Today - 200 * UnitsPerDay) * SubMs), <<>>)

\* the sites handed to cacheMetadata
EnrichLinks == { EnrichLink(2) }

\* the lists handed to getLinksMetadata
EnrichLists ==
  { << EnrichLink(2) >>,
    << EnrichLink(2), EnrichLink(4) >>,
    << EnrichLink(6), EnrichLink(4) >> }

\* the lists _getBookmarks and getHistory resolve with in _getHighlights
HighlightInputs ==
  { [bookmarks |-> << _transformBookmark(BookmarkNode(11, 2, Today - 300)) >>,
     histories |-> << _transformHistory(HistoryItem(4, 5, (Today - 10) * SubMs), <<>>) >>] }

InitEnrich ==
  /\ dispatched = <<>>
  /\ nativeEvents = <<>>
  /\ LoopIdle
  /\ rev \in Revisions
  /\ metadataStore = {}
  /\ jobs = <<>>
  /\ batches = <<>>
  /\ limiters = <<>>
  /\ submitted = <<>>
  /\ fetchStarted = <<>>
  /\ clock = 0
  /\ RankIdle
  /\ AggIdle

\* the sites getLinksMetadata maps to _getMetadata: part_001 lines 14-17
\* filter and slice; the earlier revision's line 14 cuts the list to 20
\* (the holes the assignment makes in a shorter list are skipped by map)
candidateSites(revision, sites) ==
  IF revision = "part_001"
  THEN sliceTo(SelectSeq(sites, LAMBDA site : ~googleLocalhostChromeRegex(site.url)),
               MaxEnriched)
  ELSE sliceTo(sites, MaxHighlighted)

\* the jobs of a getLinksMetadata call: part_001 line 17 calls _getMetadata
\* for each site; the earlier revision's lines 15-21 return a site that has
\* images as it is
jobsFor(revision, candidates, batch) ==
  [i \in 1..Len(candidates) |->
     NewJob(candidates[i], batch,
            IF revision # "part_001" /\ candidates[i].images # <<>>
            THEN "resolved" ELSE "getItem")]

\* getLinksMetadata up to Promise.all (part_001 lines 12-19; lines 12-23 of
\* the earlier revision).  given is the list the caller started from.
mapGetMetadata(origin, given, sites) ==
  LET candidates == candidateSites(rev, sites)
  IN  /\ batches' = Append(batches,
           [origin |-> origin, given |-> given, first |-> Len(jobs) + 1,
            count |-> Len(candidates), pc |-> "pending", value |-> <<>>])
      /\ jobs' = jobs \o jobsFor(rev, candidates, Len(batches) + 1)
      /\ UNCHANGED <<rankVars, aggVars, eventVars, loopVars, rev, metadataStore, limiters, submitted,
                     fetchStarted, clock>>

\* the same, for as many calls and sites as the exploration is bounded to
startBatch(origin, given, sites) ==
  /\ Len(batches) < MaxBatches
  /\ Len(jobs) + Len(candidateSites(rev, sites)) <= MaxJobs
  /\ mapGetMetadata(origin, given, sites)

getLinksMetadata(sites) == startBatch("getLinksMetadata", sites, sites)

\* the callback of Promise.all in _getHighlights (ChromePlacesProvider.js
\* lines 260-276): select, shuffle, hand over to the preview provider.
\* getLinksMetadataForHighlights is in neither preview provider at hand;
\* getLinksMetadata stands for it.
highlightsJoined(bookmarks, hists) ==
  \E shuffledRows \in shuffle(highlightRows(bookmarks, hists)) :
    startBatch("_getHighlights", bookmarks \o hists, shuffledRows)

\* cacheMetadata (part_001 lines 32-34)
cacheMetadata(site) ==
  /\ rev = "part_001"
  /\ Len(jobs) < MaxJobs
  /\ jobs' = Append(jobs, NewJob(site, 0, "getItem"))
  /\ UNCHANGED <<rankVars, aggVars, eventVars, loopVars, rev, metadataStore, batches, limiters, submitted,
                 fetchStarted, clock>>

\* db.getItem resolves with a record that counts as a hit (part_001 lines
\* 45-48; lines 49-53 of the earlier revision)
getItemHit(j) ==
  /\ jobs[j].pc = "getItem"
  /\ LET metadata == dbGetItem(metadataStore, jobs[j].site.url)
     IN  /\ isCacheHit(rev, metadata)
         /\ jobs' = [jobs EXCEPT ![j].site = assignMetadata(@, metadata),
                                 ![j].found = metadata,
                                 ![j].pc = "resolved"]
  /\ UNCHANGED <<rankVars, aggVars, eventVars, loopVars, rev, metadataStore, batches, limiters, submitted,
                 fetchStarted, clock>>

startedAt(started, now) == [k \in 1..Len(started) |-> [job |-> started[k], at |-> now]]

\* db.getItem resolves with what counts as a miss (part_001 lines 49-50;
\* lines 54-55 of the earlier revision): the fetch goes to the rate limiter
getItemMiss(j) ==
  /\ jobs[j].pc = "getItem"
  /\ LET metadata == dbGetItem(metadataStore, jobs[j].site.url)
         limited == _rateLimit(limiters, j, clock)
     IN  /\ ~isCacheHit(rev, metadata)
         /\ limiters' = limited.limiters
         /\ submitted' = Append(submitted, j)
         /\ fetchStarted' = fetchStarted \o startedAt(limited.started, clock)
         /\ jobs' = [jobs EXCEPT ![j].found = metadata,
                                 ![j].pc = IF limited.started = <<j>>
                                           THEN "fetching" ELSE "queued"]
  /\ UNCHANGED <<rankVars, aggVars, eventVars, loopVars, rev, metadataStore, batches, clock>>

\* the interval of a _rateLimit call fires: processQueue without a resolve
\* function; the interval stays set unless processQueue cleared it
intervalFired(l) ==
  /\ limiters[l].timer # Undefined
  /\ clock >= limiters[l].timer
  /\ LET p == processQueue(limiters[l])
     IN  /\ limiters' = [limiters EXCEPT ![l] =
              [queue |-> p.queue,
               timer |-> IF p.timer = Undefined THEN Undefined ELSE @.timer + delay]]
         /\ fetchStarted' = fetchStarted \o startedAt(p.started, clock)
         /\ jobs' = [j \in 1..Len(jobs) |->
              IF p.started = <<j>>
              THEN [jobs[j] EXCEPT !.pc = "fetching", !.unresolvable = TRUE]
              ELSE jobs[j]]
  /\ UNCHANGED <<rankVars, aggVars, eventVars, loopVars, rev, metadataStore, batches, submitted, clock>>

\* the fetch of a job has ended and _fetchMetadata resolved with
\* siteWithMetadata.  part_001 lines 51-59: the record is persisted, then the
\* job resolves; the earlier revision's line 56 only resolves.  A fetch
\* started by the interval has no resolve function: the job stays pending.
fetchResolved(j, siteWithMetadata, outcome) ==
  /\ jobs[j].pc = "fetching"
  /\ IF jobs[j].unresolvable
     THEN /\ jobs' = [jobs EXCEPT ![j].site = siteWithMetadata,
                                  ![j].outcome = outcome,
                                  ![j].pc = "pending"]
          /\ UNCHANGED metadataStore
     ELSE /\ jobs' = [jobs EXCEPT ![j].site = siteWithMetadata,
                                  ![j].outcome = outcome,
                                  ![j].pc = "resolved"]
          /\ metadataStore' =
               IF rev = "part_001"
               THEN dbAddOrUpdateExisting(metadataStore, metadataOf(siteWithMetadata))
               ELSE metadataStore
  /\ UNCHANGED <<rankVars, aggVars, eventVars, loopVars, rev, batches, limiters, submitted, fetchStarted,
                 clock>>

\* fetch or response.text() rejects (part_001 line 78): .catch resolves
\* with the site as it is; the callback after it runs on an undefined
\* domString and finds no field
\* a failed fetch that rejects the site's promise instead of resolving it
fetchFailed_rejects(j) ==
  /\ jobs[j].pc = "fetching"
  /\ jobs' = [jobs EXCEPT ![j].outcome = "failed", ![j].pc = "pending"]
  /\ UNCHANGED <<rankVars, aggVars, eventVars, loopVars, rev, metadataStore, batches, limiters, submitted,
                 fetchStarted, clock>>

fetchFailed(j) == fetchResolved(j, jobs[j].site, "failed")

\* the page arrives and is parsed (part_001 lines 77, 79-105)
fetchSucceeded(j, pageMetadata) ==
  fetchResolved(j, withPageMetadata(jobs[j].site, pageMetadata), "fetched")

\* the page arrives and getMetadata (or the DOM parse) throws inside the
\* last callback (part_001 lines 79-80): the chain rejects, nothing catches
\* it, and resolve is never called, so _fetchMetadata stays pending
fetchParseThrew(j) ==
  /\ jobs[j].pc = "fetching"
  /\ jobs' = [jobs EXCEPT ![j].outcome = "threw", ![j].pc = "pending"]
  /\ UNCHANGED <<rankVars, aggVars, eventVars, loopVars, rev, metadataStore, batches, limiters, submitted,
                 fetchStarted, clock>>

\* the records the earlier getLinksMetadata persists (lines 24-34): one
\* write per highlight, in order
RECURSIVE persistAll(_, _)
persistAll(table, highlights) ==
  IF highlights = <<>> THEN table
  ELSE persistAll(dbAddOrUpdateExisting(table, metadataOf(Head(highlights))),
                  Tail(highlights))

\* Promise.all of a getLinksMetadata call resolves (part_001 lines 19-23;
\* lines 23-37 of the earlier revision)
allResolved(b) ==
  /\ batches[b].pc = "pending"
  /\ LET members == batches[b].first .. (batches[b].first + batches[b].count - 1)
         sitesWithMetadata ==
           [k \in 1..batches[b].count |-> jobs[batches[b].first + k - 1].site]
     IN  /\ \A j \in members : jobs[j].pc = "resolved"
         /\ batches' = [batches EXCEPT
              ![b].pc = "resolved",
              ![b].value = SelectSeq(sitesWithMetadata,
                 LAMBDA site : site.images # <<>> /\ site.description # "")]
         /\ IF rev = "part_001"
            THEN UNCHANGED metadataStore
            ELSE metadataStore' = persistAll(metadataStore, sitesWithMetadata)
  /\ UNCHANGED <<rankVars, aggVars, eventVars, loopVars, rev, jobs, limiters, submitted, fetchStarted, clock>>

\* time passes
Tick ==
  /\ clock < MaxClock
  /\ clock' = clock + ClockStep
  /\ UNCHANGED <<rankVars, aggVars, eventVars, loopVars, rev, metadataStore, jobs, batches, limiters,
                 submitted, fetchStarted>>

NextEnrich ==
  \/ \E sites \in EnrichLists : getLinksMetadata(sites)
  \/ \E given \in HighlightInputs : highlightsJoined(given.bookmarks, given.histories)
  \/ \E site \in EnrichLinks : cacheMetadata(site)
  \/ \E j \in 1..Len(jobs) : getItemHit(j)
  \/ \E j \in 1..Len(jobs) : getItemMiss(j)
  \/ \E l \in 1..Len(limiters) : intervalFired(l)
  \/ \E j \in 1..Len(jobs) : fetchFailed(j)
  \/ \E j \in 1..Len(jobs), pageMetadata \in PageMetadatas : fetchSucceeded(j, pageMetadata)
  \/ \E j \in 1..Len(jobs) : fetchParseThrew(j)
  \/ \E b \in 1..Len(batches) : allResolved(b)
  \/ Tick

SpecEnrich == InitEnrich /\ [][NextEnrich]_vars

\* The event loop runs the callback of every settled promise: a db.getItem
\* read settles and its callback runs, and the callback of Promise.all runs
\* once every member has resolved.  Nothing makes a fetch end: there is no
\* timeout on it.
EnrichFairness ==
  /\ \A j \in 1..MaxJobs : WF_vars(j <= Len(jobs) /\ (getItemHit(j) \/ getItemMiss(j)))
  /\ \A b \in 1..MaxBatches : WF_vars(b <= Len(batches) /\ allResolved(b))

SpecEnrichLive == SpecEnrich /\ EnrichFairness

\* ------------------------------------------------------------------------
\* The metadata cache with invalidation.  removeMetadata is in neither
\* preview provider at hand; the provider of part_000 has it (lines
\* 493-495) as db.remove(METADATA, url).
\* ------------------------------------------------------------------------
removeMetadata(url) ==
  /\ metadataStore' = dbRemove(metadataStore, url)
  /\ jobs' = [j \in 1..Len(jobs) |->
       IF jobs[j].site.url = url THEN [jobs[j] EXCEPT !.invalidated = TRUE]
                                 ELSE jobs[j]]
  /\ UNCHANGED <<rankVars, aggVars, eventVars, loopVars, rev, batches, limiters, submitted,
                 fetchStarted, clock>>

InitCache ==
  /\ InitEnrich
  /\ rev = "part_001"

NextCache ==
  \/ NextEnrich
  \/ \E url \in Urls : removeMetadata(url)

SpecCache == InitCache /\ [][NextCache]_vars

\* ------------------------------------------------------------------------
\* The command handlers (ChromePlacesAction.js) with the listeners of the
\* native events (ChromeListenerManager.js lines 19-25), over the
\* aggregator and the metadata cache together.  dispatched is what the
\* presentation layer has been sent.
\* ------------------------------------------------------------------------
\* the url the user visits and the one content asks to delete
VisitUrls == {2}

\* the metadata store a session starts with: empty, or holding what an
\* earlier session persisted for the url
PersistedMetadata ==
  { {}, { [url |-> 2, images |-> <<>>, description |-> "text"] } }

\* an event handed to dispatch
Event(type, data, append, request) ==
  [type |-> type, data |-> data, append |-> append, request |-> request]

\* topFrecentSites (ChromePlacesAction.js lines 7-10) up to
\* chrome.history.search being issued by getHistory()
topFrecentSites ==
  /\ Len(calls) < MaxCalls
  /\ calls' = Append(calls, [NewCall("getHistory", "search", <<>>)
                              EXCEPT !.respond = "TOP_FRECENT_SITES_RESPONSE"])
  /\ UNCHANGED <<notAggVars, nativeHistory, nativeTree, blockedStore, dbWrites, blockLog>>

\* recentLinks (ChromePlacesAction.js lines 45-59) up to
\* chrome.history.search being issued: getHistory({endTime}) for a request
\* that appends, getHistory() otherwise
recentLinks(append) ==
  /\ Len(calls) < MaxCalls
  /\ calls' = Append(calls,
       [NewCall("getHistory", "search", <<>>) EXCEPT
          !.options = searchOptionsOf(
             IF append
             THEN [keys |-> {"endTime"}, startTime |-> Undefined, endTime |-> BeforeDate]
             ELSE NoOptions),
          !.respond = "RECENT_LINKS_RESPONSE",
          !.append = append])
  /\ UNCHANGED <<notAggVars, nativeHistory, nativeTree, blockedStore, dbWrites, blockLog>>

\* a then-callback that runs again on a promise it has run on
dispatchResponse_again(c) ==
  /\ calls[c].pc \in {"resolved", "dispatched"}
  /\ calls[c].respond # ""
  /\ Len(dispatched) < MaxCalls + MaxBatches
  /\ dispatched' = Append(dispatched,
       Event(calls[c].respond, calls[c].value, calls[c].append, c))
  /\ calls' = [calls EXCEPT ![c].pc = "dispatched"]
  /\ UNCHANGED <<rankVars, loopVars, enrichVars, nativeEvents, nativeHistory, nativeTree,
                 blockedStore, dbWrites, blockLog>>

\* the then-callback of a request's promise (lines 9, 25-29, 32, 49-54,
\* 57): the event is dispatched with the list the provider resolved with;
\* topFrecentSites resolves with _getTopFrecentSites of the histories
\* (ChromePlacesProvider.js lines 15-18)
dispatchResponse(c) ==
  /\ calls[c].pc = "resolved"
  /\ calls[c].respond # ""
  /\ dispatched' = Append(dispatched,
       Event(calls[c].respond,
             IF calls[c].respond = "TOP_FRECENT_SITES_RESPONSE"
             THEN _getTopFrecentSites(calls[c].value) ELSE calls[c].value,
             calls[c].append, c))
  /\ calls' = [calls EXCEPT ![c].pc = "dispatched"]
  /\ UNCHANGED <<rankVars, loopVars, enrichVars, nativeEvents, nativeHistory, nativeTree,
                 blockedStore, dbWrites, blockLog>>

\* highlightsLinks (ChromePlacesAction.js lines 64-69): the then-callback
\* of the promise of _getHighlights dispatches the highlights
highlightsLinksResponse(b) ==
  /\ batches[b].origin = "_getHighlights"
  /\ batches[b].pc = "resolved"
  /\ dispatched' = Append(dispatched,
       Event("HIGHLIGHTS_LINKS_RESPONSE", batches[b].value, FALSE, b))
  /\ batches' = [batches EXCEPT ![b].pc = "dispatched"]
  /\ UNCHANGED <<rankVars, loopVars, aggVars, nativeEvents, rev, metadataStore, jobs, limiters,
                 submitted, fetchStarted, clock>>

\* the jobs with the marks removeMetadata(url) leaves
invalidatedJobs(url) ==
  [j \in 1..Len(jobs) |->
     IF jobs[j].site.url = url THEN [jobs[j] EXCEPT !.invalidated = TRUE]
                               ELSE jobs[j]]

\* historyDelete (ChromePlacesAction.js lines 152-160): chrome deletes the
\* visits of the url and will fire onVisitRemoved for it, the metadata is
\* removed and the event dispatched
historyDelete(url) ==
  /\ \E i \in 1..Len(nativeHistory) : nativeHistory[i].url = url
  /\ nativeHistory' = SelectSeq(nativeHistory, LAMBDA item : item.url # url)
  /\ nativeEvents' = Append(nativeEvents, [type |-> "onVisitRemoved", urls |-> <<url>>])
  /\ metadataStore' = dbRemove(metadataStore, url)
  /\ jobs' = invalidatedJobs(url)
  /\ dispatched' = Append(dispatched, Event("NOTIFY_HISTORY_DELETE", url, FALSE, Undefined))
  /\ UNCHANGED <<rankVars, loopVars, nativeTree, blockedStore, dbWrites, blockLog, calls, rev,
                 batches, limiters, submitted, fetchStarted, clock>>

\* a delete that chrome does not notify the listeners of
historyDelete_unnotified(url) ==
  /\ \E i \in 1..Len(nativeHistory) : nativeHistory[i].url = url
  /\ nativeHistory' = SelectSeq(nativeHistory, LAMBDA item : item.url # url)
  /\ metadataStore' = dbRemove(metadataStore, url)
  /\ jobs' = invalidatedJobs(url)
  /\ dispatched' = Append(dispatched, Event("NOTIFY_HISTORY_DELETE", url, FALSE, Undefined))
  /\ UNCHANGED <<rankVars, loopVars, nativeEvents, nativeTree, blockedStore, dbWrites, blockLog,
                 calls, rev, batches, limiters, submitted, fetchStarted, clock>>

\* the listener of chrome.history.onVisitRemoved (ChromeListenerManager.js
\* lines 23-25) runs removeHistory (ChromePlacesAction.js lines 94-102) on
\* the oldest event: the events here carry one url each
removeHistory ==
  /\ nativeEvents # <<>>
  /\ Head(nativeEvents).type = "onVisitRemoved"
  /\ LET url == Head(nativeEvents).urls[1]
     IN  /\ metadataStore' = dbRemove(metadataStore, url)
         /\ jobs' = invalidatedJobs(url)
         /\ dispatched' = Append(dispatched,
              Event("NOTIFY_HISTORY_DELETE", url, FALSE, Undefined))
  /\ nativeEvents' = Tail(nativeEvents)
  /\ UNCHANGED <<rankVars, loopVars, aggVars, rev, batches, limiters, submitted, fetchStarted, clock>>

\* the user visits a page: chrome records the visit, newest first, and
\* fires onVisited
onVisited(url) ==
  /\ Len(calls) + Len(nativeEvents) < MaxCalls
  /\ Len(jobs) + Len(nativeEvents) < MaxJobs
  /\ LET known == { i \in 1..Len(nativeHistory) : nativeHistory[i].url = url }
         visited == IF known = {}
                    THEN HistoryItem(url, 1, Today * SubMs - 1)
                    ELSE [nativeHistory[CHOOSE i \in known : TRUE] EXCEPT
                            !.visitCount = @ + 1,
                            !.lastVisitTime = Today * SubMs - 1]
     IN  nativeHistory' =
           <<visited>> \o SelectSeq(nativeHistory, LAMBDA item : item.url # url)
  /\ nativeEvents' = Append(nativeEvents, [type |-> "onVisited", urls |-> <<url>>])
  /\ UNCHANGED <<rankVars, loopVars, enrichVars, dispatched, nativeTree, blockedStore, dbWrites,
                 blockLog, calls>>

\* the listener of chrome.history.onVisited (ChromeListenerManager.js
\* lines 19-21) runs visitHistory (ChromePlacesAction.js lines 110-114) on
\* the oldest event: cacheMetadata({url}) makes its _getMetadata call and
\* returns, then recentLinks() issues its search
visitHistory ==
  /\ nativeEvents # <<>>
  /\ Head(nativeEvents).type = "onVisited"
  /\ jobs' = Append(jobs,
       NewJob(HistoryItem(Head(nativeEvents).urls[1], Undefined, Undefined), 0, "getItem"))
  /\ calls' = Append(calls, [NewCall("getHistory", "search", <<>>)
                              EXCEPT !.respond = "RECENT_LINKS_RESPONSE"])
  /\ nativeEvents' = Tail(nativeEvents)
  /\ UNCHANGED <<rankVars, loopVars, dispatched, nativeHistory, nativeTree, blockedStore, dbWrites,
                 blockLog, rev, metadataStore, batches, limiters, submitted,
                 fetchStarted, clock>>

InitCommands ==
  /\ dispatched = <<>>
  /\ nativeEvents = <<>>
  /\ LoopIdle
  /\ \E native \in NativeStores :
       /\ nativeHistory = native.history
       /\ nativeTree = native.tree
  /\ Len(_collectBookmarks(nativeTree)) < DefaultOptions.maxResults
  /\ blockedStore = {}
  /\ dbWrites = <<>>
  /\ blockLog = <<>>
  /\ calls = <<>>
  /\ rev = "part_001"
  /\ metadataStore \in PersistedMetadata
  /\ jobs = <<>>
  /\ batches = <<>>
  /\ limiters = <<>>
  /\ submitted = <<>>
  /\ fetchStarted = <<>>
  /\ clock = 0
  /\ RankIdle

\* the data requests are followed while every native query and every
\* fetch they issue completes
NextCommands ==
  \/ topFrecentSites
  \/ \E beforeDate \in BookmarkDates : recentBookmarksCall(beforeDate)
  \/ \E append \in BOOLEAN : recentLinks(append)
  \/ \E given \in HighlightInputs : highlightsJoined(given.bookmarks, given.histories)
  \/ \E c \in 1..Len(calls) : historySearchCallback(c)
  \/ \E c \in 1..Len(calls) : getTreeCallback(c)
  \/ \E c \in 1..Len(calls) : getAllBlockedResolved(c)
  \/ \E c \in 1..Len(calls) : dispatchResponse(c)
  \/ \E b \in 1..Len(batches) : allResolved(b)
  \/ \E b \in 1..Len(batches) : highlightsLinksResponse(b)

\* the native events and the delete content asks for, within one interval
\* of the rate limiter
NextListeners ==
  \/ \E url \in VisitUrls : onVisited(url)
  \/ \E url \in VisitUrls : historyDelete(url)
  \/ visitHistory
  \/ removeHistory
  \/ \E c \in 1..Len(calls) : historySearchCallback(c)
  \/ \E c \in 1..Len(calls) : getTreeCallback(c)
  \/ \E c \in 1..Len(calls) : getAllBlockedResolved(c)
  \/ \E c \in 1..Len(calls) : dispatchResponse(c)
  \/ \E j \in 1..Len(jobs) : getItemHit(j)
  \/ \E j \in 1..Len(jobs) : getItemMiss(j)
  \/ \E j \in 1..Len(jobs) : fetchFailed(j)
  \/ \E j \in 1..Len(jobs), pageMetadata \in PageMetadatas : fetchSucceeded(j, pageMetadata)

\* The event loop runs every callback that is due and hands every native
\* event to its listener; the fetches end, as the requests are followed
\* under that proviso.
CommandsFairness ==
  /\ WF_vars(visitHistory \/ removeHistory)
  /\ \A c \in 1..MaxCalls :
       WF_vars(c <= Len(calls) /\ (\/ historySearchCallback(c) \/ getTreeCallback(c)
                                   \/ getAllBlockedResolved(c) \/ dispatchResponse(c)))
  /\ \A j \in 1..MaxJobs :
       WF_vars(j <= Len(jobs) /\ (\/ getItemHit(j) \/ getItemMiss(j) \/ fetchFailed(j)
                                  \/ \E pageMetadata \in PageMetadatas :
                                       fetchSucceeded(j, pageMetadata)))
  /\ \A b \in 1..MaxBatches :
       WF_vars(b <= Len(batches) /\ (allResolved(b) \/ highlightsLinksResponse(b)))

SpecCommands == InitCommands /\ [][NextCommands]_vars /\ CommandsFairness

SpecListeners == InitCommands /\ [][NextListeners]_vars /\ CommandsFairness

\* ------------------------------------------------------------------------
\* The candidates of one getLinksMetadata call.  Which sites of the list
\* are mapped to _getMetadata is decided before the first suspension
\* point, so it is explored on its own, over lists longer than the number
\* of lookups the state machine above is bounded to.
\* ------------------------------------------------------------------------
\* the urls of the longest list handed over
SubmitUrls == << 2, 3, 4, 6, 2, 3, 5, 4, 2, 3, 4, 1 >>

\* the lists handed over: every stretch of the longest one
SubmitLists ==
  { [i \in 1..(to - from + 1) |-> EnrichLink(SubmitUrls[from + i - 1])] :
      from \in 1..Len(SubmitUrls), to \in 1..Len(SubmitUrls) }

\* one getLinksMetadata call up to Promise.all
getLinksMetadataSubmit(sites) ==
  /\ batches = <<>>
  /\ mapGetMetadata("getLinksMetadata", sites, sites)

NextSubmit == \E sites \in SubmitLists : getLinksMetadataSubmit(sites)

SpecSubmit == InitEnrich /\ [][NextSubmit]_vars

\* ------------------------------------------------------------------------
\* C3: no link the highlight selection resolves with, enrichment included,
\* has a visitCount above 3.
\* ------------------------------------------------------------------------
HighlightsResolved(batch) ==
  batch.origin = "_getHighlights" /\ batch.pc = "resolved"

C3_HighlightsVisitCountAtMostThree ==
  \A b \in 1..Len(batches) :
    HighlightsResolved(batches[b]) =>
      \A i \in 1..Len(batches[b].value) : batches[b].value[i].visitCount <= 3

\* highlights resolved from lists that held a link visited more than 3 times
C3_Witness ==
  \E b \in 1..Len(batches) :
    /\ HighlightsResolved(batches[b])
    /\ \E i \in 1..Len(batches[b].given) : batches[b].given[i].visitCount > 3

\* ------------------------------------------------------------------------
\* C4: when the fetch for a site's url fails before any field is obtained,
\* no record for that url is written to the METADATA table: with the table
\* empty at the start and no fetch for the url having got through, the
\* table has no record for it.
\* ------------------------------------------------------------------------
OnlyFailedFetches(url) ==
  /\ \E j \in 1..Len(jobs) : jobs[j].site.url = url /\ jobs[j].outcome = "failed"
  /\ \A j \in 1..Len(jobs) : jobs[j].site.url = url => jobs[j].outcome # "fetched"

C4_FailedFetchPersistsNothing ==
  \A url \in Urls : OnlyFailedFetches(url) => dbGetItem(metadataStore, url) = NoItem

\* ------------------------------------------------------------------------
\* C8: no two fetches start less than delay apart.
\* ------------------------------------------------------------------------
C8_FetchStartsAtLeastDelayApart ==
  \A i, k \in 1..Len(fetchStarted) :
    i < k => fetchStarted[k].at - fetchStarted[i].at >= delay

\* ------------------------------------------------------------------------
\* C9: fetches start in the order of their submission to the rate limiter:
\* the jobs whose fetch has started are the first jobs submitted, in that
\* order.
\* ------------------------------------------------------------------------
StartedJobs == [i \in 1..Len(fetchStarted) |-> fetchStarted[i].job]

C9_FetchesStartInSubmissionOrder ==
  /\ Len(fetchStarted) <= Len(submitted)
  /\ StartedJobs = SubSeq(submitted, 1, Len(fetchStarted))

\* two jobs submitted, both fetches started
C9_Witness ==
  /\ Len(submitted) >= 2
  /\ Len(fetchStarted) >= 2

\* ------------------------------------------------------------------------
\* C10: a site for whose url db.getItem found a record gets the record's
\* images and description, and no fetch is initiated for it.
\* ------------------------------------------------------------------------
FoundInCache(job) == job.pc # "getItem" /\ job.found # NoItem

C10_CacheHitMergesAndDoesNotFetch ==
  \A j \in 1..Len(jobs) :
    FoundInCache(jobs[j]) =>
      /\ jobs[j].site.images = jobs[j].found.images
      /\ jobs[j].site.description = jobs[j].found.description
      /\ \A k \in 1..Len(submitted) : submitted[k] # j
      /\ \A k \in 1..Len(fetchStarted) : fetchStarted[k].job # j

\* ------------------------------------------------------------------------
\* C11: when the fetch of a cache miss succeeds (part_001), the METADATA
\* table afterwards holds exactly one record for the site's url, carrying
\* the single image {url, width 450, height 278} if the page had one and
\* the description if the page had one; the record is written also when
\* only one of the two was found.
\* ------------------------------------------------------------------------
\* the record a page is expected to leave for a url
ExpectedRecord(url, pageMetadata) ==
  [url |-> url,
   images |-> IF pageMetadata.image_url # ""
              THEN << [url |-> pageMetadata.image_url, width |-> 450, height |-> 278] >>
              ELSE <<>>,
   description |-> pageMetadata.description]

RecordsFor(table, url) == { r \in table : r.url = url }

C11_SuccessfulFetchPersistsOneRecord ==
  [][\A j \in 1..Len(jobs), pageMetadata \in PageMetadatas :
       (rev = "part_001" /\ fetchSucceeded(j, pageMetadata)) =>
         RecordsFor(metadataStore', jobs[j].site.url) =
           { ExpectedRecord(jobs[j].site.url, pageMetadata) }]_vars

\* a record with a description and no image is in the table after a fetch
C11_Witness ==
  /\ rev = "part_001"
  /\ \E j \in 1..Len(jobs) :
       /\ jobs[j].outcome = "fetched"
       /\ jobs[j].pc = "resolved"
       /\ jobs[j].site.images = <<>>
       /\ jobs[j].site.description # ""
       /\ RecordsFor(metadataStore, jobs[j].site.url) =
            { [url |-> jobs[j].site.url, images |-> <<>>,
               description |-> jobs[j].site.description] }

\* ------------------------------------------------------------------------
\* C12: when the fetch of a site fails, the site's enrichment resolves, with
\* the site exactly as it was submitted (no images or description added),
\* and nothing is rejected: the job ends resolved, in both revisions.
\* ------------------------------------------------------------------------
C12_FailedFetchResolvesSiteUnchanged ==
  [][\A j \in 1..Len(jobs) :
       fetchFailed(j) =>
         /\ jobs'[j].pc = "resolved"
         /\ jobs'[j].site = jobs[j].site
         /\ jobs'[j].outcome = "failed"]_vars

\* a site of an enrich call whose fetch failed and whose promise resolved
C12_Witness ==
  \E j \in 1..Len(jobs) :
    /\ jobs[j].outcome = "failed"
    /\ jobs[j].pc = "resolved"
    /\ jobs[j].batch > 0
    /\ jobs[j].site.images = <<>>
    /\ jobs[j].site.description = ""

\* ------------------------------------------------------------------------
\* C13: getLinksMetadata eventually resolves: once the fetch of every site
\* of the call has ended, whether it failed, delivered a page, or delivered
\* a page on which the page-metadata parse threw, every site settles and
\* the promise of the call resolves.
\* ------------------------------------------------------------------------
MembersOf(b) == batches[b].first .. (batches[b].first + batches[b].count - 1)

\* no site of the call is still reading the cache or waiting for the network
FetchesEnded(b) ==
  \A j \in MembersOf(b) : jobs[j].pc \notin {"getItem", "queued", "fetching"}

C13_EnrichCallEventuallyResolves ==
  \A b \in 1..MaxBatches :
    [](  (b <= Len(batches) /\ FetchesEnded(b))
      => <>(b <= Len(batches) /\ batches[b].pc = "resolved"))

\* ------------------------------------------------------------------------
\* C14: a fetch that never ends for one site does not hold back its
\* siblings: a site of an enrich call whose own enrichment has resolved is
\* eventually delivered to the caller of that call, whatever the other
\* fetches of the call do (a call in which a parse threw is left aside: it
\* is the case of C13).
\* ------------------------------------------------------------------------
ParseThrewIn(b) == \E k \in MembersOf(b) : jobs[k].outcome = "threw"

C14_ResolvedSiblingIsDelivered ==
  \A j \in 1..MaxJobs :
    [](  (j <= Len(jobs) /\ jobs[j].batch > 0 /\ jobs[j].pc = "resolved")
      => <>(/\ j <= Len(jobs) /\ jobs[j].batch > 0
            /\ (\/ batches[jobs[j].batch].pc = "resolved"
                \/ ParseThrewIn(jobs[j].batch))))

\* ------------------------------------------------------------------------
\* C15: every history record getHistory returns whose url is the url of a
\* bookmark of the native store carries the bookmarkGuid of a bookmark of
\* that url together with its visitCount, and a record whose url no
\* bookmark has carries no bookmarkGuid, however many bookmarks the store
\* holds.  Stated for calls during which nothing was ever blocked.
\* ------------------------------------------------------------------------
\* the ids of the bookmarks of the native store that have the url
BookmarkIdsFor(url) ==
  LET all == _collectBookmarks(nativeTree)
  IN  { all[i].id : i \in { k \in 1..Len(all) : all[k].url = url } }

C15_HistoryCarriesGuidOfItsBookmark ==
  \A c \in 1..Len(calls) :
    (calls[c].kind = "getHistory" /\ calls[c].pc = "resolved" /\ blockLog = <<>>) =>
      \A i \in 1..Len(calls[c].value) :
        LET link == calls[c].value[i]
        IN  /\ link.visitCount # Undefined
            /\ IF BookmarkIdsFor(link.url) # {}
               THEN link.bookmarkGuid \in BookmarkIdsFor(link.url)
               ELSE link.bookmarkGuid = Undefined

\* ------------------------------------------------------------------------
\* C16: no two links of one returned result set have the same url; here
\* for the lists getHistory and _getBookmarks resolve with, the store
\* holding a url that is bookmarked in two folders.
\* ------------------------------------------------------------------------
NoTwoSameUrl(rows) ==
  \A i, k \in 1..Len(rows) : rows[i].url = rows[k].url => i = k

C16_ResultSetUrlsUnique ==
  \A c \in 1..Len(calls) :
    (calls[c].kind \in {"getHistory", "_getBookmarks"} /\ calls[c].pc = "resolved") =>
      NoTwoSameUrl(calls[c].value)

\* ------------------------------------------------------------------------
\* C17: one enrich call submits at most 8 sites to the metadata lookup, the
\* first 8 of the list it was handed, whatever the length of the list.
\* (That it resolves only with sites having images and a description is
\* the filter of allResolved.)
\* ------------------------------------------------------------------------
C17_AtMostEightSubmitted ==
  \A b \in 1..Len(batches) :
    /\ batches[b].count <= MaxEnriched
    /\ \A j \in MembersOf(b) :
         \E i \in 1..Len(batches[b].given) : batches[b].given[i] = jobs[j].site

\* ------------------------------------------------------------------------
\* C18: a candidate is selected as a highlight exactly when its visitCount
\* (0 if absent) is at most 3 and either its dateAdded is present and more
\* than three days old, or its lastVisitDate is present and more than
\* thirty minutes old, for every combination of present and absent dates.
\* ------------------------------------------------------------------------
SelectedAsSpecified(item) ==
  /\ (IF item.visitCount = Undefined THEN 0 ELSE item.visitCount) <= 3
  /\ \/ item.dateAdded # Undefined /\ Today - item.dateAdded > threeDays
     \/ item.lastVisitDate # Undefined /\ Today - item.lastVisitDate > thirtyMinutes

C18_SelectedExactlyWhenSpecified ==
  rankPc = "resolved" =>
    \A i \in 1..Len(histories) :
      (\E k \in 1..Len(topSites) : topSites[k] = histories[i])
        <=> SelectedAsSpecified(histories[i])

\* ------------------------------------------------------------------------
\* C19: the frecency score of ChromePlacesProvider.js is monotone: of two
\* links of the same age the one with more visits never scores lower, of
\* two links with the same visitCount the one visited more recently never
\* scores lower, and a link with visitCount 10 visited now scores strictly
\* higher than a link with visitCount 1 visited 10 days ago.
\* ------------------------------------------------------------------------
TenDaysAgo == Today - 10 * UnitsPerDay

C19_FrecencyMonotone ==
  (rankPc = "resolved" /\ rev = "ChromePlacesProvider.js") =>
    \A i, k \in 1..Len(topSites) :
      LET a == topSites[i]
          b == topSites[k]
      IN  /\ (a.lastVisitDate = b.lastVisitDate /\ a.visitCount >= b.visitCount)
               => ~FrecencyGT(b.frencency, a.frencency)
          /\ (a.visitCount = b.visitCount /\ a.lastVisitDate >= b.lastVisitDate)
               => ~FrecencyGT(b.frencency, a.frencency)
          /\ (/\ a.visitCount = 10 /\ a.lastVisitDate = Today
              /\ b.visitCount = 1 /\ b.lastVisitDate = TenDaysAgo)
               => FrecencyGT(a.frencency, b.frencency)

\* the scenario: visitCount 10 visited now against visitCount 1 visited ten
\* days ago, scored
C19_Witness ==
  /\ rankPc = "resolved"
  /\ rev = "ChromePlacesProvider.js"
  /\ topSites[1].visitCount = 10 /\ topSites[1].lastVisitDate = Today
  /\ topSites[2].visitCount = 1 /\ topSites[2].lastVisitDate = TenDaysAgo
  /\ topSites[1].frencency.vc = 10
  /\ topSites[1].frencency.num = 100 * topSites[1].frencency.den
  /\ FrecencyGT(topSites[1].frencency, topSites[2].frencency)

\* ------------------------------------------------------------------------
\* C20: the score of a link is visitCount * max(1, 100*225/(age*age + 225))
\* with age = now - lastVisitDate in days, both operands in one time unit;
\* it is never below visitCount, never above 100 * visitCount, and is
\* 100 * visitCount at age 0.
\* ------------------------------------------------------------------------
\* the factor max(1, 100*225/(age*age + 225)) with age = d / one day
SpecifiedFactor(link) ==
  LET d   == Today - link.lastVisitDate
      num == 100 * 225 * UnitsPerDay * UnitsPerDay
      den == d * d + 225 * UnitsPerDay * UnitsPerDay
  IN  IF num > den THEN [num |-> num, den |-> den] ELSE [num |-> 1, den |-> 1]

InLowestTerms(f) ==
  LET g == Gcd(f.num, f.den)
  IN  [num |-> f.num \div g, den |-> f.den \div g]

C20_ScoreIsTheFormulaInDays ==
  rankPc = "resolved" =>
    \A i \in 1..Len(topSites) :
      LET f == InLowestTerms(topSites[i].frencency)
      IN  /\ topSites[i].frencency.vc = topSites[i].visitCount
          /\ f = InLowestTerms(SpecifiedFactor(topSites[i]))
          /\ f.num >= f.den
          /\ f.num <= 100 * f.den
          /\ topSites[i].lastVisitDate = Today => f.num = 100 * f.den

\* ------------------------------------------------------------------------
\* C21: whatever options getHistory is called with, every link it resolves
\* with was last visited strictly between the effective bounds of the
\* query, startTime < lastVisitDate < endTime (a bound left undefined
\* bounds nothing).
\* ------------------------------------------------------------------------
WithinBounds(link, options) ==
  /\ options.startTime # Undefined => options.startTime < link.lastVisitDate
  /\ options.endTime # Undefined => link.lastVisitDate < options.endTime

C21_HistoryWithinEffectiveBounds ==
  \A c \in 1..Len(calls) :
    (calls[c].kind = "getHistory" /\ calls[c].pc = "resolved") =>
      \A i \in 1..Len(calls[c].value) :
        WithinBounds(calls[c].value[i], calls[c].options)

\* ------------------------------------------------------------------------
\* C22: the bookmark collection visits the tree depth-first in pre-order
\* and collects exactly the nodes with a url, in visit order: every link
\* node at any depth once, and no folder.
\* ------------------------------------------------------------------------
\* the nodes of a tree of the three levels explored
NodesOf(trees) ==
  LET level1 == { trees[i] : i \in 1..Len(trees) }
      level2 == UNION { { n.children[i] : i \in 1..Len(n.children) } : n \in level1 }
      level3 == UNION { { n.children[i] : i \in 1..Len(n.children) } : n \in level2 }
  IN  level1 \cup level2 \cup level3

\* the place of a node in the pre-order visit, from its id
PreorderPlace(id) == IF id < 10 THEN 10 * id ELSE id

C22_CollectsLinksInPreorder ==
  \A c \in 1..Len(calls) :
    calls[c].kind = "_collectBookmarks" =>
      LET bookmarks == calls[c].value
      IN  /\ { bookmarks[i].id : i \in 1..Len(bookmarks) }
               = { n.id : n \in { m \in NodesOf(nativeTree) : m.url # 0 } }
          /\ \A i \in 1..Len(bookmarks) : bookmarks[i].url # 0
          /\ \A i, k \in 1..Len(bookmarks) :
               i < k => PreorderPlace(bookmarks[i].id) < PreorderPlace(bookmarks[k].id)

\* a tree with a link after a folder that holds a link below a folder
C22_Witness ==
  \E c \in 1..Len(calls) :
    /\ calls[c].kind = "_collectBookmarks"
    /\ [i \in 1..Len(calls[c].value) |-> calls[c].value[i].id] = <<12, 2>>
    /\ \E n \in NodesOf(nativeTree) : n.id = 11 /\ n.url = 0

\* ------------------------------------------------------------------------
\* C23: when the native history or bookmark query of a getHistory or
\* _getBookmarks call fails, the promise of the call settles with an error
\* surfaced to the caller: it is eventually rejected, and neither stays
\* pending for ever nor resolves with a list.
\* ------------------------------------------------------------------------
C23_NativeFailureRejects ==
  \A c \in 1..MaxCalls :
    [](  (c <= Len(calls) /\ calls[c].nativeFailed)
      => <>(c <= Len(calls) /\ calls[c].pc = "rejected"))


\* ------------------------------------------------------------------------
\* C24
\* ------------------------------------------------------------------------
\* C24: every list recentBookmarks resolves with is sorted ascendingly by
\* dateAdded: of two adjacent bookmarks the earlier one is not added later
\* than the one after it.
C24_RecentBookmarksAscending ==
  \A c \in 1..Len(calls) :
    (calls[c].kind = "recentBookmarks" /\ calls[c].pc = "resolved")
      => \A i \in 1..(Len(calls[c].value) - 1) :
           calls[c].value[i].dateAdded <= calls[c].value[i + 1].dateAdded

\* ------------------------------------------------------------------------
\* C25
\* ------------------------------------------------------------------------
\* C25: between callbacks a rate limiter whose queue is empty has no interval
\* timer running (timer = null).
C25_NoTimerWhileQueueEmpty ==
  \A l \in 1..Len(limiters) :
    limiters[l].queue = <<>> => limiters[l].timer = Undefined

\* ------------------------------------------------------------------------
\* C26
\* ------------------------------------------------------------------------
\* histories[i] is the first link of its host in the ranker's input
FirstOfItsHost(i) ==
  \A j \in 1..(i - 1) :
    urlParseHost(histories[j].url) # urlParseHost(histories[i].url)

C27_NoExcludedUrlReturned ==
  rankPc = "resolved" =>
    /\ \A i \in 1..Len(topSites) : ~filterRegex(topSites[i].url)
    /\ LET rows == highlightRows(<<>>, histories)
       IN  \A i \in 1..Len(rows) : ~filterRegex(rows[i].url)

\* the ranker has returned for a history holding a search-result url next to
\* other urls
C27_Witness ==
  /\ rankPc = "resolved"
  /\ \E i, j \in 1..Len(histories) :
       /\ SEARCH_RESULT_REGEX(histories[i].url)
       /\ ~SEARCH_RESULT_REGEX(histories[j].url)

\* ------------------------------------------------------------------------
\* C28, C29
\* ------------------------------------------------------------------------
\* the url matches one of the three patterns constants.js exports
MatchesExportedPattern(u) ==
  SEARCH_RESULT_REGEX(u) \/ LOCALHOST_REGEX(u) \/ BROWSER_RESOURCE_REGEX(u)

\* C28: the exclusion filter removes only urls that match one of the three
\* patterns of the constants module: the first link of a host whose url
\* matches none of them is returned, and a history holding such a link
\* yields a non-empty top-sites list.
C28_UnmatchedLinksAreKept ==
  rankPc = "resolved" =>
    /\ \A i \in 1..Len(histories) :
         (FirstOfItsHost(i) /\ ~MatchesExportedPattern(histories[i].url))
           => \E k \in 1..Len(topSites) : topSites[k].url = histories[i].url
    /\ (\E i \in 1..Len(histories) : ~MatchesExportedPattern(histories[i].url))
         => topSites # <<>>

\* C29: when the ranker's input holds a link of host h whose url is not
\* excluded, its output holds a link of host h.
C29_HostWithKeptUrlIsRepresented ==
  rankPc = "resolved" =>
    \A i \in 1..Len(histories) :
      ~MatchesExportedPattern(histories[i].url)
        => \E k \in 1..Len(topSites) :
             urlParseHost(topSites[k].url) = urlParseHost(histories[i].url)

\* ------------------------------------------------------------------------
\* C30
\* ------------------------------------------------------------------------
\* the blocklist writes in the order they were issued
WritesInIssueOrder == blockLog \o dbWrites

\* C30: with nothing ever unblocked, a url whose block was issued before a
\* request command was handled is not in the list the request resolves
\* with.
C30_BlockedBeforeRequestNeverReturned ==
  \A c \in 1..Len(calls) :
    (/\ calls[c].pc = "resolved"
     /\ \A k \in 1..Len(WritesInIssueOrder) : WritesInIssueOrder[k].by = "addBlockedUrl")
      => \A k \in 1..calls[c].issuedAt :
           \A i \in 1..Len(calls[c].value) :
             calls[c].value[i].url # WritesInIssueOrder[k].url

\* ------------------------------------------------------------------------
\* C31
\* ------------------------------------------------------------------------
\* the _getMetadata calls made for the url
JobsFor(url) == { j \in 1..Len(jobs) : jobs[j].site.url = url }

\* every lookup of the url was made before its metadata was last removed,
\* and none of them has anything left to do
InvalidatedAndQuiet(url) ==
  /\ JobsFor(url) # {}
  /\ \A j \in JobsFor(url) :
       jobs[j].invalidated /\ jobs[j].pc \in {"resolved", "pending"}

\* C31: once the metadata of a url has been invalidated, no visit or enrich
\* request for it has followed, and every pending operation has completed,
\* the METADATA table holds no entry for the url.
C31_InvalidatedEntryStaysRemoved ==
  \A url \in Urls :
    InvalidatedAndQuiet(url) => dbGetItem(metadataStore, url) = NoItem

\* ------------------------------------------------------------------------
\* C32
\* ------------------------------------------------------------------------
\* C32: with no invalidation, whatever the interleaving of enrich and
\* cacheMetadata calls, no two network fetches are initiated for one url.
C32_OneFetchPerUrl ==
  \A i, k \in 1..Len(fetchStarted) :
    i # k => jobs[fetchStarted[i].job].site.url # jobs[fetchStarted[k].job].site.url

\* ------------------------------------------------------------------------
\* C33
\* ------------------------------------------------------------------------
\* the fetch of the job has ended and _fetchMetadata has resolved
FetchCompleted(job) == job.outcome \in {"fetched", "failed"}

\* C33: every request submitted to the rate limiter is executed exactly
\* once, and once its fetch has completed the promise handed to its
\* submitter is resolved, with the site of that same request.
C33_SubmittedRunsOnceAndResolves ==
  /\ \A i, k \in 1..Len(fetchStarted) : i # k => fetchStarted[i].job # fetchStarted[k].job
  /\ { fetchStarted[i].job : i \in 1..Len(fetchStarted) }
       = { submitted[i] : i \in 1..Len(submitted) }
  /\ \A j \in 1..Len(jobs) :
       FetchCompleted(jobs[j]) =>
         /\ jobs[j].pc = "resolved"
         /\ \E i \in 1..Len(submitted) : submitted[i] = j

\* two requests were submitted while the first interval was still set, and
\* the fetches of both have completed
C33_Witness ==
  /\ Len(submitted) = 2
  /\ clock = 0
  /\ \A i \in 1..Len(submitted) : FetchCompleted(jobs[submitted[i]])

\* ------------------------------------------------------------------------
\* C34.  Each data request handled by the core (top sites, recent
\* bookmarks, recent links, highlights) eventually dispatches exactly one
\* response event of the matching type, provided the native queries and
\* fetches it issues complete; the response carries meta.append = true
\* exactly when the request did.
\* ------------------------------------------------------------------------
ListResponses ==
  {"TOP_FRECENT_SITES_RESPONSE", "RECENT_BOOKMARKS_RESPONSE", "RECENT_LINKS_RESPONSE"}

\* the events dispatched for the request of call c
ResponsesTo(c) ==
  { i \in 1..Len(dispatched) :
      dispatched[i].type \in ListResponses /\ dispatched[i].request = c }

\* the events dispatched for the highlights request of batch b
HighlightsResponsesTo(b) ==
  { i \in 1..Len(dispatched) :
      dispatched[i].type = "HIGHLIGHTS_LINKS_RESPONSE" /\ dispatched[i].request = b }

AtMostOneMatchingResponse ==
  /\ \A c \in 1..Len(calls) :
       /\ Cardinality(ResponsesTo(c)) <= 1
       /\ \A i \in ResponsesTo(c) :
            /\ dispatched[i].type = calls[c].respond
            /\ dispatched[i].append = calls[c].append
  /\ \A b \in 1..Len(batches) :
       /\ Cardinality(HighlightsResponsesTo(b)) <= 1
       /\ HighlightsResponsesTo(b) # {} => batches[b].origin = "_getHighlights"
  /\ \A i \in 1..Len(dispatched) :
       \/ i \in UNION { ResponsesTo(c) : c \in 1..Len(calls) }
       \/ i \in UNION { HighlightsResponsesTo(b) : b \in 1..Len(batches) }

DeleteNotifications(url) ==
  { i \in 1..Len(dispatched) :
      dispatched[i].type = "NOTIFY_HISTORY_DELETE" /\ dispatched[i].data = url }

\* no visit has brought a deleted url back, so each url was deleted at most
\* once
NoVisitSoFar ==
  /\ jobs = <<>>
  /\ \A e \in 1..Len(nativeEvents) : nativeEvents[e].type # "onVisited"

\* up to the first visit a url has been deleted at most once, and at most
\* one event has been dispatched for it
C35_OneNotificationPerDelete ==
  \A url \in Urls :
    NoVisitSoFar => Cardinality(DeleteNotifications(url)) <= 1

\* ------------------------------------------------------------------------
\* C36.  On a native visit event for URL u with no cache entry, a metadata
\* lookup for u is started without blocking the handler, a
\* RECENT_LINKS_RESPONSE is eventually dispatched, and once the fetch
\* completes the metadata store holds an entry for u.
\* ------------------------------------------------------------------------
\* every visit handled has made its lookup and issued its search
LookupAndSearchStarted ==
  /\ Len(jobs) = Len(calls)
  /\ \A j \in 1..Len(jobs) : jobs[j].batch = 0 /\ calls[j].respond = "RECENT_LINKS_RESPONSE"

\* the step that completes the fetch of a lookup leaves an entry for its url
EntryOnceFetchCompletes ==
  \A j \in 1..MaxJobs :
    (/\ j <= Len(jobs)
     /\ ~FetchCompleted(jobs[j])
     /\ FetchCompleted(jobs'[j]))
      => dbGetItem(metadataStore', jobs[j].site.url) # NoItem

BookmarkStores ==
  { [history |-> <<>>,
     tree |-> << TreeFolder(0, << TreeLink(11, 2, Today - 50) >>
                               \o [i \in 1..DefaultOptions.maxResults |->
                                     TreeLink(20 + i, 3, Today - 100 - i)]) >>] }

InitBookmarks ==
  /\ dispatched = <<>>
  /\ nativeEvents = <<>>
  /\ LoopIdle
  /\ \E native \in BookmarkStores :
       /\ nativeHistory = native.history
       /\ nativeTree = native.tree
  /\ blockedStore = {}
  /\ dbWrites = <<>>
  /\ blockLog = <<>>
  /\ calls = <<>>
  /\ RankIdle
  /\ EnrichIdle

NextBookmarks ==
  \/ \E u \in BlockUrls : addBlockedUrl(u)
  \/ unblockAllUrl
  \/ DbWriteDone
  \/ getBookmarksCall
  \/ \E c \in 1..Len(calls) : getTreeCallback(c)
  \/ \E c \in 1..Len(calls) : getAllBlockedResolved(c)

SpecBookmarks == InitBookmarks /\ [][NextBookmarks]_vars

\* ------------------------------------------------------------------------
\* C37.  _getBookmarks returns at most maxResults links, each with
\* dateAdded < beforeDate; whenever at least maxResults non-blocked
\* bookmarks satisfy dateAdded < beforeDate it returns exactly maxResults
\* of them, the most recently added non-blocked ones.
\* ------------------------------------------------------------------------
\* the bookmarks before the date of the call that the blocklist it read
\* does not block, most recently added first
EligibleBookmarks(call) ==
  SelectSeq(sortByDateAdded(_collectBookmarks(nativeTree)),
            LAMBDA b : b.dateAdded < call.beforeDate /\ b.url \notin call.blockedRead)

C37_NewestNonBlockedBookmarks ==
  \A c \in 1..Len(calls) :
    (calls[c].kind = "_getBookmarks" /\ calls[c].pc = "resolved") =>
      /\ Len(calls[c].value) <= DefaultOptions.maxResults
      /\ \A i \in 1..Len(calls[c].value) : calls[c].value[i].dateAdded < calls[c].beforeDate
      /\ Len(EligibleBookmarks(calls[c])) >= DefaultOptions.maxResults =>
           calls[c].value = mapTransformBookmark(
                              sliceTo(EligibleBookmarks(calls[c]), DefaultOptions.maxResults))

\* ------------------------------------------------------------------------
\* C38.  The blocklist filter is pure: it modifies neither the persisted
\* blocklist nor the input list or its links, and the links it returns
\* keep their relative order in the input.
\* ------------------------------------------------------------------------
\* s can be had from t by leaving elements out
RECURSIVE IsSubsequence(_, _)
IsSubsequence(s, t) ==
  IF s = <<>> THEN TRUE
  ELSE IF t = <<>> THEN FALSE
  ELSE IF Head(s) = Head(t) THEN IsSubsequence(Tail(s), Tail(t))
  ELSE IsSubsequence(s, Tail(t))

\* the step in which _filterBlockedUrls resolves for call c
FilterResolves(c) ==
  /\ c <= Len(calls)
  /\ calls[c].pc = "filter"
  /\ calls'[c].pc = "resolved"

FilterIsPure ==
  \A c \in 1..MaxCalls :
    FilterResolves(c) =>
      /\ blockedStore' = blockedStore
      /\ dbWrites' = dbWrites
      /\ blockLog' = blockLog
      /\ calls'[c].items = calls[c].items
      /\ IsSubsequence(calls'[c].value, calls[c].items)

C38_FilterIsPureAndKeepsOrder == [][FilterIsPure]_vars

\* a filter call has resolved with two of the three links it was given,
\* and the list it was given and the blocklist are as they were
C38_Witness ==
  \E c \in 1..Len(calls) :
    /\ calls[c].kind = "_filterBlockedUrls"
    /\ calls[c].pc = "resolved"
    /\ Len(calls[c].items) = 3
    /\ Len(calls[c].value) = 2
    /\ calls[c].blockedRead = { r.url : r \in blockedStore }

\* ------------------------------------------------------------------------
\* The Fisher-Yates shuffle of part_000 (_shuffle, lines 688-704; shuffle
\* in actions.js lines 87-103 is the same loop), one pass of the while
\* loop at a time, over every array of at most MaxShuffle links
\* ------------------------------------------------------------------------
MaxShuffle == 4

\* the urls of the links handed over; a link may come more than once
ShuffleUrls == {2, 3, 4}

ShuffleArrays ==
  { [i \in 1..Len(urls) |-> FilterLink(urls[i])] : urls \in SeqsUpTo(ShuffleUrls, MaxShuffle) }

\* Math.floor(Math.random() * arrayLen) with the picks a shuffle that never
\* leaves an element in its place would make
randomIndex_notLast(remaining) ==
  IF remaining > 1 THEN 0..(remaining - 2) ELSE {0}

\* the values of Math.floor(Math.random() * arrayLen): Math.random() is
\* at least 0 and less than 1
randomIndex(remaining) == 0..(remaining - 1)

\* lines 698-700: the swap of array[arrayLen] and array[index], with
\* arrayLen already decremented to m (indices from 0)
swapped(a, m, index) ==
  [a EXCEPT ![m + 1] = a[index + 1], ![index + 1] = a[m + 1]]

\* the arrays the loop can return when it stands at a with m elements left
RECURSIVE shuffleOutcomes(_, _)
shuffleOutcomes(a, m) ==
  IF m = 0 THEN {a}
  ELSE UNION { shuffleOutcomes(swapped(a, m - 1, index), m - 1) : index \in randomIndex(m) }

InitShuffle ==
  /\ dispatched = <<>>
  /\ nativeEvents = <<>>
  /\ arrayGiven \in ShuffleArrays
  /\ array = arrayGiven
  /\ arrayLen = Len(arrayGiven)
  /\ localStorage = {}
  /\ historyTable = {}
  /\ paging = [pc |-> "off", startTime |-> 0, endTime |-> 0]
  /\ pagingStarts = 0
  /\ RankIdle
  /\ AggIdle
  /\ EnrichIdle

\* one pass of the loop (lines 694-701): while (arrayLen), pick, decrement,
\* swap; with arrayLen 0 the array is returned
_shuffle ==
  /\ arrayLen # 0
  /\ \E index \in randomIndex(arrayLen) :
       array' = swapped(array, arrayLen - 1, index)
  /\ arrayLen' = arrayLen - 1
  /\ UNCHANGED <<rankVars, aggVars, enrichVars, eventVars, arrayGiven, cacheVars>>

NextShuffle == _shuffle

\* the loop is running code: its next pass is taken
SpecShuffle == InitShuffle /\ [][NextShuffle]_vars /\ WF_vars(_shuffle)

\* ------------------------------------------------------------------------
\* C39.  shuffle terminates and returns a permutation of its input (same
\* multiset of elements), and every permutation of the input is a possible
\* outcome.
\* ------------------------------------------------------------------------
SameMultiset(a, b) ==
  /\ Len(a) = Len(b)
  /\ \A x \in { a[i] : i \in 1..Len(a) } \cup { b[i] : i \in 1..Len(b) } :
       Cardinality({ i \in 1..Len(a) : a[i] = x }) = Cardinality({ i \in 1..Len(b) : b[i] = x })

\* at every point of the loop the array holds the elements handed in, and
\* from the start of the loop every order of them can come out
ShuffleIsPermutation ==
  /\ SameMultiset(array, arrayGiven)
  /\ (arrayLen = Len(arrayGiven) /\ array = arrayGiven) =>
       shuffleOutcomes(array, arrayLen) = shuffle(arrayGiven)

C39_ShuffleTerminatesWithAnyPermutation ==
  /\ []ShuffleIsPermutation
  /\ [][arrayLen' < arrayLen /\ arrayLen' >= 0]_shuffleVars
  /\ <>(arrayLen = 0)

\* the loop has ended on four different links with the array reversed
C39_Witness ==
  /\ arrayLen = 0
  /\ Len(arrayGiven) = MaxShuffle
  /\ arrayGiven[1] # arrayGiven[MaxShuffle]
  /\ array = [i \in 1..Len(arrayGiven) |-> arrayGiven[Len(arrayGiven) + 1 - i]]

\* ------------------------------------------------------------------------
\* The history cache of the provider revision in part_000 (lines 158-276):
\* getHistory, _cacheHistory and the chain of _pageHistory calls.  The
\* search bounds of the chain are held in ticks, as lastVisitTime is.
\* ------------------------------------------------------------------------
MaxCacheCalls == 2

\* chrome.history.search returns at most 100 items when searchOptions has
\* no maxResults, as here (lines 164-168)
ChromeMaxResults == 100

\* what the callers hand to getHistory: {isSkipCache: true} (line 14),
\* {searchParam} without and with an endTime (lines 77-84)
CacheOptions ==
  { [isSkipCache |-> TRUE, endTime |-> Undefined],
    [isSkipCache |-> FALSE, endTime |-> Undefined],
    [isSkipCache |-> FALSE, endTime |-> BeforeDate] }

\* the search of lines 199-204 and 262-267: the native query, then the
\* filter applied when both bounds are truthy
searchWithin(items, startTime, endTime) ==
  LET results == sliceTo(SelectSeq(items, LAMBDA r : \/ r.lastVisitTime >= startTime
                                                     \/ r.lastVisitTime <= endTime),
                         ChromeMaxResults)
  IN  IF ~Falsy(startTime) /\ ~Falsy(endTime)
      THEN SelectSeq(results, LAMBDA r : /\ r.lastVisitTime > startTime
                                         /\ r.lastVisitTime < endTime)
      ELSE results

\* histories.forEach((hist) => db.addOrUpdateExisting(HISTORY, hist))
cacheAll(table, hists) ==
  { r \in table : \A i \in 1..Len(hists) : hists[i].url # r.url }
    \cup { hists[i] : i \in 1..Len(hists) }

\* _pageHistory with an end time that is not moved when a page is empty
pageHistory_sameDay(hists, searchOptions) ==
  LET endTime == IF Len(hists) > 0 THEN hists[Len(hists)].lastVisitTime
                 ELSE searchOptions.endTime
  IN  [pc |-> IF searchOptions.startTime > endTime THEN "stopped" ELSE "search",
       startTime |-> searchOptions.startTime, endTime |-> endTime]

\* _pageHistory (lines 244-259) up to chrome.history.search being issued:
\* the end time moves to the last item of the page, or back a day, and the
\* chain stops once it is before the start time
_pageHistory(hists, searchOptions) ==
  LET endTime == IF Len(hists) > 0 THEN hists[Len(hists)].lastVisitTime
                 ELSE searchOptions.endTime - UnitsPerDay * SubMs
  IN  [pc |-> IF searchOptions.startTime > endTime THEN "stopped" ELSE "search",
       startTime |-> searchOptions.startTime, endTime |-> endTime]

InitHistoryCache ==
  /\ dispatched = <<>>
  /\ nativeEvents = <<>>
  /\ \E native \in NativeStores :
       /\ nativeHistory = native.history
       /\ nativeTree = native.tree
  /\ Len(_collectBookmarks(nativeTree)) < DefaultOptions.maxResults
  /\ blockedStore = {}
  /\ dbWrites = <<>>
  /\ blockLog = <<>>
  /\ calls = <<>>
  /\ LoopIdle
  /\ RankIdle
  /\ EnrichIdle

\* getHistory (lines 158-198) up to db.getAll / db.getSlice or
\* chrome.history.search being issued
getHistoryCached(options) ==
  /\ Len(calls) < MaxCacheCalls
  /\ calls' = Append(calls,
       [NewCall("getHistory",
                IF "init" \in localStorage /\ ~options.isSkipCache THEN "dbRead" ELSE "search",
                <<>>)
        EXCEPT !.options = [startTime |-> (Today - aYear) * SubMs,
                            endTime |-> (IF options.endTime = Undefined
                                         THEN Today ELSE options.endTime) * SubMs,
                            maxResults |-> ChromeMaxResults]])
  /\ UNCHANGED <<notAggVars, nativeHistory, nativeTree, blockedStore, dbWrites, blockLog>>

\* the read of the HISTORY table resolves (lines 172-192); the blocklist
\* is empty here
dbHistoryResolved(c) ==
  /\ calls[c].pc = "dbRead"
  /\ calls' = [calls EXCEPT ![c].pc = "resolved"]
  /\ UNCHANGED <<notAggVars, nativeHistory, nativeTree, blockedStore, dbWrites, blockLog>>

\* the callback of chrome.history.search (lines 199-206) up to getBookmark
\* and the transforms being awaited
cacheSearchCallback(c) ==
  /\ calls[c].pc = "search"
  /\ calls' = [calls EXCEPT
       ![c].results = searchWithin(nativeHistory, calls[c].options.startTime,
                                   calls[c].options.endTime),
       ![c].pc = "transform"]
  /\ UNCHANGED <<notAggVars, nativeHistory, nativeTree, blockedStore, dbWrites, blockLog>>

\* the transforms have resolved (lines 207-212): _cacheHistory (lines
\* 232-242) writes the histories, and unless the "cache" key is set it sets
\* both keys and makes the first _pageHistory call
_cacheHistory(c) ==
  /\ calls[c].pc = "transform"
  /\ LET hists == mapTransformHistory(calls[c].results,
                                      mapTransformBookmark(_collectBookmarks(nativeTree)))
     IN  /\ historyTable' = cacheAll(historyTable, hists)
         /\ calls' = [calls EXCEPT ![c].value = hists, ![c].pc = "resolved"]
         /\ IF "cache" \in localStorage
            THEN UNCHANGED <<localStorage, paging, pagingStarts>>
            ELSE /\ localStorage' = localStorage \cup {"cache", "init"}
                 /\ paging' = _pageHistory(hists, calls[c].options)
                 /\ pagingStarts' = pagingStarts + 1
  /\ UNCHANGED <<rankVars, enrichVars, eventVars, shuffleVars, nativeHistory, nativeTree,
                 blockedStore, dbWrites, blockLog>>

\* the search of a _pageHistory call has come back and its histories are
\* transformed (lines 260-275): they are written and _pageHistory is
\* called with them
pageHistoryCallback ==
  /\ paging.pc = "search"
  /\ LET hists == mapTransformHistory(
                    searchWithin(nativeHistory, paging.startTime, paging.endTime),
                    mapTransformBookmark(_collectBookmarks(nativeTree)))
     IN  /\ historyTable' = cacheAll(historyTable, hists)
         /\ paging' = _pageHistory(hists, paging)
  /\ UNCHANGED <<rankVars, aggVars, enrichVars, eventVars, shuffleVars, localStorage,
                 pagingStarts>>

NextHistoryCache ==
  \/ \E options \in CacheOptions : getHistoryCached(options)
  \/ \E c \in 1..Len(calls) : dbHistoryResolved(c)
  \/ \E c \in 1..Len(calls) : cacheSearchCallback(c)
  \/ \E c \in 1..Len(calls) : _cacheHistory(c)
  \/ pageHistoryCallback

\* chrome answers the searches and the event loop runs the callbacks
SpecHistoryCache ==
  /\ InitHistoryCache
  /\ [][NextHistoryCache]_vars
  /\ WF_vars(pageHistoryCallback)
  /\ \A c \in 1..MaxCacheCalls :
       WF_vars(c <= Len(calls) /\ (cacheSearchCallback(c) \/ _cacheHistory(c)))

\* ------------------------------------------------------------------------
\* C40.  In the history-cache revision, background paging is started at
\* most once no matter how many getHistory calls are made, and every
\* paging chain terminates: the query end time strictly decreases at each
\* step until it falls below the start time.
\* ------------------------------------------------------------------------
\* a step of the chain moves its end time back
PagingEndTimeDecreases ==
  (paging.pc = "search" /\ paging' # paging) => paging'.endTime < paging.endTime

\* the chain stops only below its start time
StoppedBelowStart ==
  paging.pc = "stopped" => paging.endTime < paging.startTime

C40_PagingStartsOnceAndTerminates ==
  /\ [](pagingStarts <= 1 /\ StoppedBelowStart)
  /\ [][PagingEndTimeDecreases]_vars
  /\ [](paging.pc = "search" => <>(paging.pc = "stopped"))

\* two getHistory calls have gone through _cacheHistory, one chain was
\* started and has stopped
C40_Witness ==
  /\ Len(calls) = 2
  /\ \A c \in 1..2 : calls[c].pc = "resolved" /\ calls[c].readAt = 0 /\ calls[c].results # <<>>
  /\ pagingStarts = 1
  /\ paging.pc = "stopped"

====
